---- MODULE Spec2Model ----
(***************************************************************************)
(* A model of the AIBTCCoin ledger (src/src/blockchain.js and              *)
(* src/src/merkleTree.js): Transaction, Block, MerkleTree and Blockchain.  *)
(*                                                                         *)
(* Representation.  A JavaScript string is a sequence of tokens (each      *)
(* token a TLA+ string standing for one or more characters), so that the   *)
(* string concatenations the code hashes are sequence concatenations.      *)
(* null is the token sequence <<"null">>, which is also what it turns      *)
(* into when the code concatenates it; no address of the model is the      *)
(* four-letter string "null".  SHA-256 is modelled as an injective         *)
(* function: the digest of s is s between two bracket tokens.              *)
(*                                                                         *)
(* An array is an object of the heap `arrays`: block.transactions and      *)
(* this.pendingTransactions hold array ids, because the code passes the    *)
(* pool array itself to the Block it builds (blockchain.js:236).           *)
(***************************************************************************)
EXTENDS Integers, Sequences, FiniteSets, TLC

VARIABLES
    chain,                \* Blockchain.chain: sequence of Block records
    arrays,               \* heap of transaction arrays: array id -> sequence of Transaction records
    pendingTransactions,  \* Blockchain.pendingTransactions: id of the pool array
    mining,               \* minePendingTransactions calls suspended in `await block.save()`
    db,                   \* the tables of the database module ./db: the rows INSERTed so far
    txObj,                \* a Transaction object on its own, as the unit tests hold one
    blockObj,             \* a Block object on its own, with its transaction list
    hashZeros,            \* the '0' characters blockObj.hash starts with, see HashZeros
    tree,                 \* the list of values a MerkleTree on its own is built from
    outcome               \* what the last call on such an object returned or threw

\* the variables of the ledger and those its operations leave alone: the
\* objects on their own and the tables of the database, which only load()
\* reads and only the specification with load() follows
ledger == <<chain, arrays, pendingTransactions, mining>>

objects == <<txObj, blockObj, hashZeros, tree, outcome, db>>

vars == <<chain, arrays, pendingTransactions, mining, db, txObj, blockObj, hashZeros, tree,
          outcome>>

----------------------------------------------------------------------------
(* Bounds of the model *)

MaxTx == 1        \* user transactions held in the pool and the chain together
MaxChain == 3     \* blocks in the chain, genesis included, being saved, or failed to save
MaxFailed == 1    \* mining calls that fail, each leaving its reward transaction behind
MaxTime == 2      \* largest value Date.now() returns
MaxDirect == 1    \* save() is called on its own while the tables hold fewer rows
MaxOverlap == 1   \* block rows stored when load() is called amid a mining call
MaxInflight == 2  \* mining calls suspended at once (concurrent specification)
MaxTamper == 1    \* chain blocks an outside write may have altered
MaxDifficulty == 2  \* largest difficulty a Block on its own is mined with
MaxSearch == 2      \* rounds of a nonce search followed on digests that depend on a key pair
MaxLeaves == 1025   \* longest list of values a MerkleTree on its own is built from
MaxDistinct == 3    \* longest such list whose values are chosen one by one
MaxPrefix == 7      \* longest such list of values that all differ

----------------------------------------------------------------------------
(* JavaScript values *)

NULL == <<"null">>

\* the value of a variable that holds no object in the specification at hand
NoObject == <<"none">>

\* the outcome of a call: nothing called yet, a value returned, an error thrown
NoOutcome == [kind |-> "none", value |-> <<>>]

Returned(value) == [kind |-> "returned", value |-> value]

Thrown(message) == [kind |-> "thrown", value |-> message]

\* a returned array of strings
ReturnedList(list) == [kind |-> "list", value |-> list]

BoolToken(b) == IF b THEN <<"true">> ELSE <<"false">>

Undefined == -1   \* stands for a numeric field that was never assigned (undefined)

DigitChar == <<"0", "1", "2", "3", "4", "5", "6", "7", "8", "9">>

RECURSIVE Digits(_)
Digits(n) ==
    IF n < 10 THEN <<DigitChar[n + 1]>>
    ELSE Digits(n \div 10) \o <<DigitChar[(n % 10) + 1]>>

\* String(n) for an integer n, as `'' + n` produces it
NumToString(n) == IF n < 0 THEN <<"-">> \o Digits(0 - n) ELSE Digits(n)

\* stands for the object { amount: -10 } in a field that holds a number
\* otherwise: the test of isChainValid hands it to createSignedTx as amount
ObjectAmount == -1000000

\* '' + amount
AmountToString(amount) ==
    IF amount = ObjectAmount THEN <<"[object Object]">> ELSE NumToString(amount)

\* JSON.stringify(amount)
AmountJson(amount) ==
    IF amount = ObjectAmount THEN <<"{", "amount", ":", "-10", "}">> ELSE NumToString(amount)

\* amount <= 0: the object is converted to NaN, and no comparison with NaN
\* is true
NotPositive(amount) == amount # ObjectAmount /\ amount <= 0

\* the values of a variable that starts as a number and takes -= and +=:
\* a number, NaN, or a string
NumberValue(n) == [type |-> "number", number |-> n, string |-> <<>>]

NaNValue == [type |-> "NaN", number |-> 0, string |-> <<>>]

StringValue(str) == [type |-> "string", number |-> 0, string |-> str]

\* '' + value
ValueToString(value) ==
    IF value.type = "number" THEN NumToString(value.number)
    ELSE IF value.type = "NaN" THEN <<"NaN">>
    ELSE value.string

\* value - amount: both sides are converted to numbers; the object and the
\* strings made with it give NaN
Minus(value, amount) ==
    IF value.type = "number" /\ amount # ObjectAmount
    THEN NumberValue(value.number - amount)
    ELSE NaNValue

\* value + amount: with an object or a string on one side it is the
\* concatenation of the two strings
Plus(value, amount) ==
    IF amount = ObjectAmount THEN StringValue(ValueToString(value) \o AmountToString(amount))
    ELSE IF value.type = "string" THEN StringValue(value.string \o NumToString(amount))
    ELSE IF value.type = "NaN" THEN NaNValue
    ELSE NumberValue(value.number + amount)

\* the value as the caller gets it: the number, or the text of what is no
\* number
JsValue(value) == IF value.type = "number" THEN value.number ELSE ValueToString(value)

\* crypto.createHash('sha256').update(s).digest('hex'), injective
Sha256(s) == <<"sha256(">> \o s \o <<")">>

\* '0'.repeat(64)
ZeroHash == <<"0000000000000000000000000000000000000000000000000000000000000000">>

----------------------------------------------------------------------------
(* Addresses and keys *)

Wallets == {<<"A">>, <<"B">>}     \* public keys (hex) of key pairs the callers hold
NotAKey == <<"m">>                \* a string that is no public key ('miner-address')

\* keyPair.sign(hashTx).toDER('hex'): elliptic signs deterministically (RFC 6979)
EcSign(publicKey, msg) == <<"sig(">> \o publicKey \o <<":">> \o msg \o <<")">>

\* ec.keyFromPublic(publicKey, 'hex').verify(msg, signature); FALSE also
\* stands for the exception a malformed key or signature raises
EcVerify(publicKey, msg, signature) ==
    /\ publicKey \in Wallets
    /\ signature = EcSign(publicKey, msg)

\* a string the elliptic library decodes as a DER signature
WellFormedSignature(signature) == Len(signature) > 0 /\ Head(signature) = "sig("

\* ec.keyFromPublic(publicKey, 'hex') raises on a string that is no curve
\* point, key.verify raises on a string that is no DER signature
EcThrows(publicKey, signature) == publicKey \notin Wallets \/ ~WellFormedSignature(signature)

----------------------------------------------------------------------------
(* class Transaction *)

\* fromAddress + toAddress: null + null is the number 0
AddressesToString(tx) ==
    IF tx.fromAddress = NULL /\ tx.toAddress = NULL THEN <<"0">>
    ELSE tx.fromAddress \o tx.toAddress

\* mutant: the timestamp is left out of the hashed string
TransactionCalculateHashNoTimestamp(tx) ==
    Sha256(AddressesToString(tx) \o AmountToString(tx.amount))

\* fromAddress + toAddress + amount + timestamp is a string as soon as one of
\* the addresses is a string; with both addresses null it is the number
\* 0 + 0 + amount + timestamp, and update() of a number throws, unless the
\* amount is an object: 0 + amount is then the string '0[object Object]'
HashThrows(tx) == tx.fromAddress = NULL /\ tx.toAddress = NULL /\ tx.amount # ObjectAmount

HashTypeError == <<"TypeError [ERR_INVALID_ARG_TYPE]: The \"data\" argument must be of type string">>

\* calculateHash(): the digest, or the exception update() raises
TransactionCalculateHash(tx) ==
    IF HashThrows(tx) THEN Thrown(HashTypeError)
    ELSE Sha256(AddressesToString(tx) \o AmountToString(tx.amount)
                \o NumToString(tx.timestamp))

\* new Transaction(...): the last statement of the constructor computes the
\* hash, so with both addresses null no object is made
NewTransaction(fromAddress, toAddress, amount, timestamp) ==
    LET t == [fromAddress |-> fromAddress, toAddress |-> toAddress, amount |-> amount,
              timestamp |-> timestamp, signature |-> NULL, blockHash |-> <<>>, hash |-> <<>>]
    IN  IF HashThrows(t) THEN Thrown(HashTypeError)
        ELSE [t EXCEPT !.hash = TransactionCalculateHash(t)]

\* sign(keyPair) with keyPair.getPublic('hex') = publicKey; the caller sees
\* the exception and the transaction is left as it was. The hash is computed
\* first, so its exception comes before the one of the key comparison
\* mutant: a transaction without a sender is signed by any key
SignThrowsWithSender(tx, publicKey) == tx.fromAddress # NULL /\ publicKey # tx.fromAddress

SignThrows(tx, publicKey) == HashThrows(tx) \/ publicKey # tx.fromAddress

Sign(tx, publicKey) ==
    IF SignThrows(tx, publicKey) THEN tx
    ELSE [tx EXCEPT !.signature = EcSign(publicKey, TransactionCalculateHash(tx))]

\* what the caller of sign(keyPair) gets
SignOutcome(tx, publicKey) ==
    IF HashThrows(tx) THEN Thrown(HashTypeError)
    ELSE IF SignThrows(tx, publicKey)
    THEN Thrown(<<"Error: You cannot sign transactions for other wallets!">>)
    ELSE Returned(<<"undefined">>)

\* what the caller of isValid() gets: the hash is computed before the null
\* check and outside the try block, so its exception reaches the caller; an
\* error raised inside the try block is caught and turned into false
IsValidOutcome(tx) ==
    IF HashThrows(tx) THEN Thrown(HashTypeError)
    ELSE IF tx.fromAddress = NULL THEN Returned(<<"true">>)
    ELSE IF tx.signature = NULL \/ Len(tx.signature) = 0 THEN Returned(<<"false">>)
    ELSE IF EcThrows(tx.fromAddress, tx.signature) THEN Returned(<<"false">>)
    ELSE Returned(BoolToken(EcVerify(tx.fromAddress, TransactionCalculateHash(tx), tx.signature)))

IsValid(tx) == IsValidOutcome(tx) = Returned(<<"true">>)

----------------------------------------------------------------------------
(* class MerkleTree (src/src/merkleTree.js; getProof and verifyProof are in *)
(* the copy of the file that has them, src/unnamed/part_003)               *)

MaxDepth == 10

MaxDepthError == <<"Error: Max recursion depth exceeded">>

\* null in a place that holds a Node; a Node's value is a digest, never null
NullNode == [value |-> NULL]

IsNode(node) == node.value # NULL

NewNode(left, right, value, isCopied) ==
    [left |-> left, right |-> right, value |-> value, isCopied |-> isCopied]

NodeHash(val) == Sha256(val)

\* mutant: the copy is not flagged
NodeCopyUnflagged(node) == NewNode(node.left, node.right, node.value, FALSE)

NodeCopy(node) == NewNode(node.left, node.right, node.value, TRUE)

\* the duplicate-last-node step of buildTree and buildTreeRec
PadOdd(nodes) ==
    IF Len(nodes) % 2 = 1 THEN Append(nodes, NodeCopy(nodes[Len(nodes)])) ELSE nodes

\* mutant: a parent is the digest of its left child alone
NewLevelLeftOnly(nodes) ==
    [i \in 1..(Len(nodes) \div 2) |->
        NewNode(nodes[2 * i - 1], nodes[2 * i], NodeHash(nodes[2 * i - 1].value), FALSE)]

\* the parents of a level of an even number of nodes
NewLevel(nodes) ==
    [i \in 1..(Len(nodes) \div 2) |->
        NewNode(nodes[2 * i - 1], nodes[2 * i],
                NodeHash(nodes[2 * i - 1].value \o nodes[2 * i].value), FALSE)]

NoNodesError == <<"Error: No nodes to process.">>

\* mutant: the recursion stops one level earlier
RECURSIVE BuildTreeRecShallow(_, _)
BuildTreeRecShallow(nodes, depth) ==
    IF depth >= MaxDepth THEN NewNode(NullNode, NullNode, MaxDepthError, FALSE)
    ELSE IF Len(nodes) = 1 THEN nodes[1]
    ELSE IF Len(nodes) = 0 THEN NewNode(NullNode, NullNode, NoNodesError, FALSE)
    ELSE BuildTreeRecShallow(NewLevel(PadOdd(nodes)), depth + 1)

\* the thrown error is the value of a node that has no children
RECURSIVE BuildTreeRec(_, _)
BuildTreeRec(nodes, depth) ==
    IF depth > MaxDepth THEN NewNode(NullNode, NullNode, MaxDepthError, FALSE)
    ELSE IF Len(nodes) = 1 THEN nodes[1]
    ELSE IF Len(nodes) = 0 THEN NewNode(NullNode, NullNode, NoNodesError, FALSE)
    ELSE BuildTreeRec(NewLevel(PadOdd(nodes)), depth + 1)

BuildTree(values) ==
    BuildTreeRec(PadOdd([i \in 1..Len(values) |->
                            NewNode(NullNode, NullNode, NodeHash(values[i]), FALSE)]), 0)

\* new MerkleTree(values).getRootHash(), values not empty
GetRootHash(values) == BuildTree(values).value

EmptyError == <<"Error: Cannot build Merkle Tree with no values.">>

\* new MerkleTree(values): args.given is false when the argument is missing;
\* a thrown error is the value of a node that has no children
NewMerkleTree(args) ==
    IF ~args.given \/ Len(args.values) = 0
    THEN NewNode(NullNode, NullNode, EmptyError, FALSE)
    ELSE BuildTree(args.values)

\* getLeaves(): the leaf nodes below `node`, left to right
RECURSIVE CollectLeaves(_)
CollectLeaves(node) ==
    IF ~IsNode(node) THEN <<>>
    ELSE IF ~IsNode(node.left) /\ ~IsNode(node.right) THEN <<node>>
    ELSE CollectLeaves(node.left) \o CollectLeaves(node.right)

\* the value of the node at height h of a tree whose leaves all have the
\* value 'a': the leaf digest at height 0, the digest of two equal children
\* above it
RECURSIVE UniformNode(_)
UniformNode(h) ==
    IF h = 0 THEN NodeHash(<<"a">>)
    ELSE LET below == UniformNode(h - 1) IN NodeHash(below \o below)

\* The characters of the digests.  Sha256 keeps what was hashed, which
\* settles whether two digests are equal; the characters of a digest are
\* those SHA-256 produces and are tabulated here: each row pairs a digest
\* with its first seven hex characters read as a number.  MerkleDigests has
\* the digests of the leaf values 'a', 'b', 'c', 'd' and of the inner nodes
\* that verifyProof meets on trees over these values; no two rows agree in
\* the seven characters
MerkleDigests ==
    {<<NodeHash(NodeHash(<<"b">>) \o UniformNode(1)), 104693>>,
     <<NodeHash(NodeHash(<<"b">>) \o NodeHash(NodeHash(<<"c">>) \o NodeHash(<<"c">>))), 10903935>>,
     <<NodeHash(NodeHash(<<"b">>) \o NodeHash(<<"b">>)), 15704939>>,
     <<NodeHash(NodeHash(NodeHash(<<"b">>) \o NodeHash(<<"c">>)) \o NodeHash(<<"a">>)), 19458277>>,
     <<NodeHash(NodeHash(<<"c">>) \o NodeHash(<<"a">>)), 20471301>>,
     <<NodeHash(NodeHash(<<"d">>) \o NodeHash(NodeHash(<<"b">>) \o NodeHash(<<"c">>))), 20866117>>,
     <<NodeHash(NodeHash(<<"c">>) \o NodeHash(NodeHash(<<"b">>) \o NodeHash(<<"a">>))), 22394004>>,
     <<NodeHash(NodeHash(<<"d">>) \o NodeHash(<<"a">>)), 22518862>>,
     <<NodeHash(UniformNode(9) \o NodeHash(<<"d">>)), 23660938>>,
     <<UniformNode(9), 25181893>>,
     <<NodeHash(<<"d">>), 25871335>>,
     <<UniformNode(7), 27067616>>,
     <<NodeHash(NodeHash(NodeHash(<<"c">>) \o NodeHash(<<"b">>)) \o NodeHash(<<"a">>)), 28149099>>,
     <<NodeHash(NodeHash(<<"c">>) \o NodeHash(NodeHash(<<"c">>) \o NodeHash(<<"c">>))), 38628309>>,
     <<NodeHash(NodeHash(<<"b">>) \o UniformNode(4)), 39049579>>,
     <<NodeHash(NodeHash(<<"c">>) \o NodeHash(<<"b">>)), 41072011>>,
     <<NodeHash(UniformNode(7) \o NodeHash(<<"b">>)), 43921034>>,
     <<UniformNode(6), 47889965>>,
     <<NodeHash(<<"c">>), 48747200>>,
     <<NodeHash(NodeHash(<<"c">>) \o UniformNode(2)), 50367647>>,
     <<NodeHash(NodeHash(NodeHash(<<"b">>) \o NodeHash(<<"a">>)) \o NodeHash(<<"a">>)), 50419600>>,
     <<NodeHash(UniformNode(1) \o NodeHash(<<"a">>)), 51502424>>,
     <<NodeHash(NodeHash(NodeHash(<<"c">>) \o NodeHash(<<"b">>)) \o NodeHash(<<"b">>)), 53228228>>,
     <<NodeHash(NodeHash(<<"d">>) \o NodeHash(<<"c">>)), 55004781>>,
     <<UniformNode(5), 56909598>>,
     <<NodeHash(<<"b">>), 65158785>>,
     <<NodeHash(NodeHash(<<"a">>) \o NodeHash(<<"c">>)), 66738165>>,
     <<NodeHash(UniformNode(9) \o NodeHash(<<"a">>)), 72002962>>,
     <<NodeHash(UniformNode(2) \o NodeHash(<<"a">>)), 73865506>>,
     <<NodeHash(NodeHash(NodeHash(<<"c">>) \o NodeHash(<<"a">>)) \o NodeHash(<<"d">>)), 73949579>>,
     <<NodeHash(UniformNode(7) \o NodeHash(<<"a">>)), 77583567>>,
     <<NodeHash(NodeHash(<<"c">>) \o NodeHash(NodeHash(<<"a">>) \o NodeHash(<<"b">>))), 86208734>>,
     <<NodeHash(NodeHash(<<"d">>) \o UniformNode(8)), 89744086>>,
     <<NodeHash(NodeHash(<<"d">>) \o UniformNode(7)), 93483944>>,
     <<NodeHash(NodeHash(<<"b">>) \o NodeHash(NodeHash(<<"b">>) \o NodeHash(<<"a">>))), 96091161>>,
     <<NodeHash(NodeHash(<<"d">>) \o NodeHash(NodeHash(<<"c">>) \o NodeHash(<<"b">>))), 96119991>>,
     <<UniformNode(3), 96598446>>,
     <<NodeHash(NodeHash(<<"c">>) \o UniformNode(5)), 98028278>>,
     <<NodeHash(NodeHash(<<"c">>) \o UniformNode(3)), 101381367>>,
     <<NodeHash(NodeHash(<<"a">>) \o NodeHash(<<"b">>)), 103478723>>,
     <<NodeHash(NodeHash(<<"c">>) \o UniformNode(1)), 103586429>>,
     <<NodeHash(NodeHash(<<"b">>) \o NodeHash(NodeHash(<<"a">>) \o NodeHash(<<"b">>))), 104125508>>,
     <<NodeHash(NodeHash(<<"b">>) \o NodeHash(<<"c">>)), 111886328>>,
     <<NodeHash(UniformNode(9) \o NodeHash(<<"b">>)), 114437568>>,
     <<NodeHash(NodeHash(<<"d">>) \o UniformNode(5)), 114904760>>,
     <<NodeHash(NodeHash(NodeHash(<<"c">>) \o NodeHash(<<"b">>)) \o NodeHash(<<"c">>)), 116228631>>,
     <<NodeHash(NodeHash(<<"b">>) \o NodeHash(NodeHash(<<"b">>) \o NodeHash(<<"c">>))), 118477492>>,
     <<NodeHash(NodeHash(NodeHash(<<"a">>) \o NodeHash(<<"b">>)) \o NodeHash(<<"a">>)), 121512685>>,
     <<NodeHash(NodeHash(NodeHash(<<"a">>) \o NodeHash(<<"c">>)) \o NodeHash(<<"a">>)), 122344593>>,
     <<NodeHash(UniformNode(9) \o NodeHash(<<"c">>)), 124746285>>,
     <<NodeHash(NodeHash(<<"c">>) \o UniformNode(4)), 128827221>>,
     <<UniformNode(2), 134734198>>,
     <<NodeHash(NodeHash(<<"a">>) \o NodeHash(NodeHash(<<"c">>) \o NodeHash(<<"c">>))), 134767492>>,
     <<NodeHash(NodeHash(<<"d">>) \o UniformNode(6)), 139220225>>,
     <<NodeHash(NodeHash(<<"c">>) \o NodeHash(NodeHash(<<"b">>) \o NodeHash(<<"c">>))), 144542555>>,
     <<NodeHash(NodeHash(<<"b">>) \o UniformNode(2)), 151602939>>,
     <<NodeHash(NodeHash(<<"b">>) \o UniformNode(8)), 153663091>>,
     <<NodeHash(NodeHash(NodeHash(<<"c">>) \o NodeHash(<<"a">>)) \o NodeHash(<<"a">>)), 155210594>>,
     <<NodeHash(NodeHash(<<"b">>) \o NodeHash(NodeHash(<<"a">>) \o NodeHash(<<"c">>))), 158192517>>,
     <<NodeHash(NodeHash(<<"b">>) \o UniformNode(3)), 159230900>>,
     <<NodeHash(UniformNode(5) \o NodeHash(<<"b">>)), 170838862>>,
     <<NodeHash(UniformNode(6) \o NodeHash(<<"a">>)), 174210670>>,
     <<NodeHash(NodeHash(<<"d">>) \o NodeHash(NodeHash(<<"a">>) \o NodeHash(<<"b">>))), 175722171>>,
     <<NodeHash(NodeHash(<<"d">>) \o NodeHash(<<"b">>)), 179179963>>,
     <<NodeHash(NodeHash(<<"b">>) \o NodeHash(<<"a">>)), 179412677>>,
     <<NodeHash(NodeHash(NodeHash(<<"c">>) \o NodeHash(<<"a">>)) \o NodeHash(<<"b">>)), 184342926>>,
     <<NodeHash(NodeHash(<<"d">>) \o NodeHash(NodeHash(<<"b">>) \o NodeHash(<<"a">>))), 184385330>>,
     <<NodeHash(UniformNode(7) \o NodeHash(<<"c">>)), 192351055>>,
     <<UniformNode(1), 197324591>>,
     <<NodeHash(NodeHash(NodeHash(<<"b">>) \o NodeHash(<<"b">>)) \o NodeHash(<<"d">>)), 198476637>>,
     <<NodeHash(NodeHash(<<"d">>) \o UniformNode(2)), 203272991>>,
     <<NodeHash(NodeHash(NodeHash(<<"c">>) \o NodeHash(<<"a">>)) \o NodeHash(<<"c">>)), 207711477>>,
     <<NodeHash(NodeHash(<<"d">>) \o UniformNode(4)), 210100932>>,
     <<NodeHash(<<"a">>), 212432913>>,
     <<UniformNode(4), 213101228>>,
     <<UniformNode(8), 218240119>>,
     <<NodeHash(NodeHash(<<"d">>) \o UniformNode(3)), 218530361>>,
     <<NodeHash(UniformNode(3) \o NodeHash(<<"a">>)), 221757248>>,
     <<NodeHash(NodeHash(<<"c">>) \o NodeHash(<<"c">>)), 223398003>>,
     <<NodeHash(NodeHash(<<"a">>) \o UniformNode(8)), 223940779>>,
     <<NodeHash(NodeHash(<<"c">>) \o NodeHash(NodeHash(<<"a">>) \o NodeHash(<<"c">>))), 229215893>>,
     <<NodeHash(NodeHash(<<"d">>) \o NodeHash(NodeHash(<<"c">>) \o NodeHash(<<"c">>))), 230740017>>,
     <<NodeHash(NodeHash(<<"d">>) \o NodeHash(NodeHash(<<"a">>) \o NodeHash(<<"c">>))), 242629953>>,
     <<NodeHash(NodeHash(<<"a">>) \o UniformNode(4)), 247312688>>,
     <<NodeHash(NodeHash(NodeHash(<<"b">>) \o NodeHash(<<"b">>)) \o NodeHash(<<"a">>)), 248662582>>,
     <<NodeHash(UniformNode(6) \o NodeHash(<<"b">>)), 257105744>>,
     <<NodeHash(UniformNode(6) \o NodeHash(<<"c">>)), 260755839>>,
     <<NodeHash(NodeHash(NodeHash(<<"b">>) \o NodeHash(<<"b">>)) \o NodeHash(<<"b">>)), 260963744>>,
     <<NodeHash(UniformNode(5) \o NodeHash(<<"a">>)), 260984402>>,
     <<NodeHash(NodeHash(NodeHash(<<"b">>) \o NodeHash(<<"b">>)) \o NodeHash(<<"c">>)), 263976779>>,
     <<NodeHash(NodeHash(<<"c">>) \o UniformNode(8)), 264767882>>,
     <<NodeHash(NodeHash(<<"d">>) \o UniformNode(1)), 266490230>>}

\* the digests of the blocks new Block(1, 'a1', ts, [], 1) along the nonce
\* search: row ts, column nonce + 1, the first seven hex characters of
\* sha256('a1' + ts + '0'.repeat(64) + nonce + '[]') read as a number
EmptyBlockHex ==
    <<<<
         235050991, 199514784, 152679586, 180029696, 41051490, 6612681, 211742082, 146089343,
         81766989, 65023740, 20667756, 33828336, 239732794, 145189703, 262473086, 251743475,
         4537414, 229827629, 129518684, 57345577, 150369794, 246672444, 132845426, 20366293,
         225546346, 216775337, 247186153, 263548655, 50926969, 127651160, 105076206, 92513609,
         181441387, 208712301, 249680368, 96400573, 41609608, 71735866, 68862676, 191974916,
         98563187, 214217352, 141344550, 118234831, 189008406, 192431591, 8060274, 105129693,
         14455939, 75356404, 135356448, 214915122, 20524878, 24571744, 31132484, 43450645,
         45784040, 95052425, 157487020, 140828942, 230305954, 8197961, 129288741, 172040181,
         247390275, 177525733, 35567304, 124628357, 210266902, 226527550, 253649649, 116527345,
         83157611, 119241908, 74418138, 66084729, 58623951, 262731103, 158565445, 137111025,
         102065471, 94980741, 199526136, 24278342, 185033033, 173521807, 99648072, 38803>>,
      <<
         11398212, 225261062, 165291304, 63202672, 203421922, 74862218, 21749071, 76414060,
         52685447, 138906932, 192459755, 104627227, 126835839, 134289261, 54785914, 222365054,
         81317999, 70351435, 185611450, 187249895, 56735136, 262236963, 218275995, 200826798,
         150915223, 82146969, 214211889, 216575322, 255682180, 92550724, 261248728, 83306305,
         164573457, 38342357, 39919915, 128513078, 39371410, 164821939, 181116177, 116694965,
         149979065, 215504426, 256578474, 65549156, 39932126, 55744031, 5910866, 30933165,
         37118608, 79435283, 94092200, 117348205, 27266111, 8972121, 161373066, 254737660,
         160288295, 13794045, 91257403, 180671786, 46745441, 219417451, 87412798, 132046101,
         53242485, 93327880, 39284261, 22491093, 186803833, 41950164, 165684933, 22275885,
         254008139, 241517323, 33866650, 156636149, 129918887, 155242136, 160269659, 65870573,
         247488681, 168728680, 227284851, 112237698, 113077208, 4216595, 266689941, 20928177,
         82745384, 152636307, 42041331, 174935801, 198851108, 206045917, 128444403, 180346974,
         84336898, 16780063, 253459911, 263770453, 191990967, 202245794, 259758774, 23355905,
         97160568, 66934168, 250962279, 113955860, 117126481, 128291910, 16540488, 141902314,
         79076296, 237141918, 156764037, 254977857, 264114412, 27640416, 55992887, 255244456,
         7358194, 171345100, 42833172, 223566233, 167111074, 229688881, 66213126, 207493314,
         36034773, 157853245, 37650748, 253804897, 168538003, 36380315, 185776822, 59505728,
         249518077, 76926632, 104990089, 94499625, 115396558, 172370791, 147998151, 174046992,
         81116444, 132696809, 31156577, 242524256, 230322658, 202859834, 116934624, 226783986,
         140233170, 59201877, 104417725, 161113598, 211491470, 243815069, 107865833, 254496741,
         217673629, 249439482, 35764349, 165469144, 200773373, 34097660, 3072934, 101603017,
         235627486, 223949418, 237250485, 165446490, 144066>>,
      <<
         82368828, 29628713, 232867860, 154566025, 81804374, 129632933, 53019405, 155515785,
         46663783, 101238529, 83000962, 61429036, 188304917, 185041111, 131897184, 167091625,
         262424189, 246388909, 102206108, 59533839, 12125828, 71362991, 117971677, 143248076,
         71986285, 148343602, 135476899, 219815928, 142777967, 201995076, 101637999, 82646670,
         39028088, 48150257, 142484861, 143402053, 161452003, 169315490, 167524730, 99318627,
         5976979, 111883102, 11251429, 456496, 110411301, 247319097, 14792823, 63048503,
         226904406, 140904775, 61633405, 2792640, 181623582, 177996621, 97318294, 154568090,
         164529506, 69618752, 196835438, 125617909, 55186643, 180431188, 72862667, 63366745,
         19566351, 17535465, 260710729, 119462004, 46311542, 266455693, 15991310, 97788164,
         24062866, 87270221, 42851719, 163723018, 200065366, 24482333, 190144211, 63819756,
         145643941, 228565762, 22962029, 225572605, 139327127, 42857469, 94677967, 98498191,
         45437427, 18090070, 222609509, 244971675, 230742155, 203228709, 255469859, 187715718,
         223976688, 215448730, 86483466, 236779276, 246095992, 136811219, 115539110, 66490380,
         105622967, 35518975, 96654294, 146827565, 123715050, 100289738, 155957835, 43941685,
         185940443, 28120078, 65588552, 85068963, 70226595, 212343292, 83356436, 61626928,
         55380006, 50613677, 267795965, 135367575, 93327020, 118564083, 49840857, 42459250,
         53614179, 33083188, 265955336, 254905517, 135943800, 109459056, 35586768, 23095607,
         56075284, 80774884, 191643143, 58879606, 94291495, 106179483, 135206271, 81446249,
         191621868, 22397483, 138892979, 28629222, 195598146, 41317349, 156030481, 42895180,
         200283687, 15517507, 134855764, 226564545, 228531532, 162934317, 188175381, 43096886,
         96875646, 91983423, 252251337, 177809525, 96342269, 267006336, 30082363, 153834708,
         48672149, 242237513, 130339114, 48899056, 198109405, 202398951, 97492450, 137619007,
         11906064, 141974635, 165506579, 222514700, 13925186, 227099149, 228281520, 59252188,
         25646133, 111696536, 37628681, 56326697, 164578506, 244912815, 223004078, 724449>>>>

\* calculateHash() of the block without transactions with this timestamp
\* and nonce
EmptyBlockKey(ts, nonce) ==
    Sha256(<<"a1">> \o NumToString(ts) \o ZeroHash \o NumToString(nonce) \o <<"[", "]">>)

DigestTable ==
    MerkleDigests
        \cup UNION {{<<EmptyBlockKey(ts, n - 1), EmptyBlockHex[ts][n]>> :
                        n \in 1..Len(EmptyBlockHex[ts])} : ts \in 1..Len(EmptyBlockHex)}

\* the first seven hex characters of a digest, read as a number
DigestHex(hash) == (CHOOSE row \in DigestTable : row[1] = hash)[2]

\* the number of '0' characters a hash string starts with, up to seven for a
\* digest; the literals used as hashes do not start with '0'
LeadingZeros(hash) ==
    IF hash = ZeroHash THEN 64
    ELSE IF Len(hash) > 0 /\ Head(hash) = "sha256("
    THEN Cardinality({k \in 1..7 : DigestHex(hash) < 16^(7 - k)})
    ELSE 0

\* s < t of verifyProof: on two digests, strings of 64 lowercase hex
\* characters, the order of the characters; a null sibling is converted to
\* a number and the comparison is false
StringLess(s, t) ==
    IF s = NULL \/ t = NULL THEN FALSE
    ELSE s # t /\ DigestHex(s) < DigestHex(t)

\* the loop of verifyProof: the smaller of hash and sibling goes first
RECURSIVE VerifyFold(_, _)
VerifyFold(hash, proof) ==
    IF Len(proof) = 0 THEN hash
    ELSE LET sibling == Head(proof)
         IN  IF StringLess(hash, sibling)
             THEN VerifyFold(NodeHash(hash \o sibling), Tail(proof))
             ELSE VerifyFold(NodeHash(sibling \o hash), Tail(proof))

\* MerkleTree.verifyProof(leaf, proof, root)
VerifyProof(leaf, proof, root) == VerifyFold(leaf, proof) = root

\* the while loop of getProof from `node` on, with the proof built so far
RECURSIVE GetProofLoop(_, _, _)
GetProofLoop(node, leafValue, proof) ==
    IF ~IsNode(node) THEN proof
    ELSE IF IsNode(node.left) /\ node.left.value = leafValue
    THEN GetProofLoop(node.left, leafValue,
                      Append(proof, IF IsNode(node.right) THEN node.right.value ELSE NULL))
    ELSE IF IsNode(node.right) /\ node.right.value = leafValue
    THEN GetProofLoop(node.right, leafValue,
                      Append(proof, IF IsNode(node.left) THEN node.left.value ELSE NULL))
    ELSE LET withLeft == IF IsNode(node.left) THEN Append(proof, node.left.value) ELSE proof
         IN  IF IsNode(node.right) THEN Append(withLeft, node.right.value) ELSE withLeft

LeafNotFoundError == <<"Error: Leaf not found in the Merkle Tree">>

\* what the caller of getProof(leafValue) gets on the tree with this root
GetProof(root, leafValue) ==
    LET proof == GetProofLoop(root, leafValue, <<>>)
    IN  IF Len(proof) = 0 THEN Thrown(LeafNotFoundError) ELSE ReturnedList(proof)

----------------------------------------------------------------------------
(* class Block; `txs` is the content of the array block.transactions *)

\* mutant: the tree is built whatever the length of the list
CalculateMerkleRootNoSentinel(txs) ==
    NewMerkleTree([given |-> TRUE, values |-> [i \in 1..Len(txs) |-> txs[i].hash]]).value

\* mutant: a leaf is the hash of the transaction followed by its blockHash
CalculateMerkleRootStamped(txs) ==
    IF Len(txs) = 0 THEN ZeroHash
    ELSE GetRootHash([i \in 1..Len(txs) |-> txs[i].hash \o txs[i].blockHash])

CalculateMerkleRoot(txs) ==
    IF Len(txs) = 0 THEN ZeroHash
    ELSE GetRootHash([i \in 1..Len(txs) |-> txs[i].hash])

\* mutant: the blockHash is serialised with the other fields
TxJsonWithBlockHash(tx) ==
    <<"{">> \o tx.fromAddress \o <<",">> \o tx.toAddress \o <<",">> \o AmountJson(tx.amount)
        \o <<",">> \o NumToString(tx.timestamp) \o <<",">> \o tx.signature
        \o <<",">> \o tx.blockHash \o <<",">> \o tx.hash \o <<"}">>

\* JSON.stringify of one transaction without its blockHash
TxJson(tx) ==
    <<"{">> \o tx.fromAddress \o <<",">> \o tx.toAddress \o <<",">> \o AmountJson(tx.amount)
        \o <<",">> \o NumToString(tx.timestamp) \o <<",">> \o tx.signature
        \o <<",">> \o tx.hash \o <<"}">>

RECURSIVE TxsJson(_)
TxsJson(txs) == IF Len(txs) = 0 THEN <<>> ELSE TxJson(Head(txs)) \o TxsJson(Tail(txs))

\* mutant: the timestamp is left out of the hashed string
BlockCalculateHashNoTimestamp(block, txs) ==
    Sha256(block.previousHash \o block.merkleRoot
           \o NumToString(block.nonce) \o <<"[">> \o TxsJson(txs) \o <<"]">>)

BlockCalculateHash(block, txs) ==
    Sha256(block.previousHash \o NumToString(block.timestamp) \o block.merkleRoot
           \o NumToString(block.nonce) \o <<"[">> \o TxsJson(txs) \o <<"]">>)

\* the constructor; arr is the id of the array passed as `transactions`
NewBlock(index, previousHash, timestamp, arr, txs, blockDifficulty) ==
    LET b == [index |-> index, previousHash |-> previousHash, timestamp |-> timestamp,
              transactions |-> arr, difficulty |-> blockDifficulty,
              merkleRoot |-> CalculateMerkleRoot(txs), nonce |-> 0, hash |-> <<>>]
    IN  [b EXCEPT !.hash = BlockCalculateHash(b, txs)]

\* hash.substring(0, d) === Array(d + 1).join('0'); both are '' when d = 0
HasZeroPrefix(hash, d) == d = 0 \/ LeadingZeros(hash) >= d

\* one test of the while condition of mineBlock(d), with one run of the loop
\* body when the test says so
MineStep(block, txs, d) ==
    IF HasZeroPrefix(block.hash, d) THEN block
    ELSE LET b == [block EXCEPT !.nonce = @ + 1]
         IN  [b EXCEPT !.hash = BlockCalculateHash(b, txs)]

\* k tests of the while condition in a row; the one-element set hands the
\* block of the first half on as a value
RECURSIVE MineSteps(_, _, _, _)
MineSteps(block, txs, d, k) ==
    IF k = 1 THEN MineStep(block, txs, d)
    ELSE CHOOSE r \in {MineSteps(b, txs, d, k - (k \div 2)) :
                           b \in {MineSteps(block, txs, d, k \div 2)}} : TRUE

\* mineBlock(d): the nonce search, the loop taken 64 tests at a time until
\* the condition fails; the chain only ever mines with d = 0
RECURSIVE MineBlock(_, _, _)
MineBlock(block, txs, d) ==
    IF HasZeroPrefix(block.hash, d) THEN block
    ELSE CHOOSE r \in {MineBlock(b, txs, d) : b \in {MineSteps(block, txs, d, 64)}} : TRUE

\* mutant: only the first transaction is looked at
HasValidTransactionsFirst(txs) ==
    IF Len(txs) = 0 THEN Returned(<<"true">>) ELSE IsValidOutcome(Head(txs))

\* hasValidTransactions(): the loop returns false at the first transaction
\* that fails isValid(), true when it runs to the end; an exception of
\* isValid() leaves the loop and reaches the caller
RECURSIVE HasValidTransactionsOutcome(_)
HasValidTransactionsOutcome(txs) ==
    IF Len(txs) = 0 THEN Returned(<<"true">>)
    ELSE LET valid == IsValidOutcome(Head(txs))
         IN  IF valid.kind = "thrown" THEN valid
             ELSE IF valid # Returned(<<"true">>) THEN Returned(<<"false">>)
             ELSE HasValidTransactionsOutcome(Tail(txs))

HasValidTransactions(txs) == HasValidTransactionsOutcome(txs) = Returned(<<"true">>)

----------------------------------------------------------------------------
(* class Blockchain: fields *)

difficulty == 0

miningReward == 100

\* the array object behind an id
Txs(arr) == arrays[arr]

\* the pool, this.pendingTransactions, as a sequence
Pool == arrays[pendingTransactions]

\* createGenesisBlock(); the constructor calls it before it assigns
\* this.difficulty, so the block's difficulty field is undefined
CreateGenesisBlock(timestamp) == NewBlock(0, <<"0">>, timestamp, 0, <<>>, Undefined)

\* mutant: the first block instead of the last one
GetLatestBlockFirst == chain[1]

GetLatestBlock == chain[Len(chain)]

\* the inner loop of getBalanceOfAddress, entered with this balance
RECURSIVE BalanceOfTxs(_, _, _)
BalanceOfTxs(txs, address, balance) ==
    IF Len(txs) = 0 THEN balance
    ELSE LET tx == Head(txs)
             debited == IF tx.fromAddress = address THEN Minus(balance, tx.amount) ELSE balance
             credited == IF tx.toAddress = address THEN Plus(debited, tx.amount) ELSE debited
         IN  BalanceOfTxs(Tail(txs), address, credited)

\* the outer loop, block after block
RECURSIVE BalanceOfBlocks(_, _, _, _)
BalanceOfBlocks(blocks, heap, address, balance) ==
    IF Len(blocks) = 0 THEN balance
    ELSE BalanceOfBlocks(Tail(blocks), heap, address,
                         BalanceOfTxs(heap[Head(blocks).transactions], address, balance))

\* mutant: the pool is counted as well
GetBalanceOfAddressWithPool(address) ==
    JsValue(BalanceOfTxs(arrays[pendingTransactions], address,
                         BalanceOfBlocks(chain, arrays, address, NumberValue(0))))

GetBalanceOfAddress(address) == JsValue(BalanceOfBlocks(chain, arrays, address, NumberValue(0)))

\* the three checks isChainValid makes on chain[i], i > 1 (1-based)
BlockChecks(i) ==
    /\ chain[i].hash = BlockCalculateHash(chain[i], Txs(chain[i].transactions))
    /\ chain[i].previousHash = chain[i - 1].hash
    /\ chain[i].merkleRoot = CalculateMerkleRoot(Txs(chain[i].transactions))

\* the loop starts at the second block: the genesis block is not examined
IsChainValid == \A i \in 2..Len(chain) : BlockChecks(i)

----------------------------------------------------------------------------
(* Loading from the database.  A loaded block owns its list of transactions;
   it is written as a Block record whose field transactions is the list. *)

\* the orders in which the database may hand back n rows where the statement
\* fixes none: SELECT ... WHERE block_hash = ? has no ORDER BY, and ORDER BY
\* index sorts by a column that save() leaves without a value in every row
Orders(n) == {f \in [1..n -> 1..n] : \A i, j \in 1..n : f[i] = f[j] => i = j}

\* Transaction.load(hash): the constructor on the columns of results[0],
\* then tx.hash = txData.hash; <<>> stands for resolve(null)
TransactionLoad(hash) ==
    LET results == SelectSeq(db.transactions, LAMBDA row : row.hash = hash)
    IN  IF Len(results) = 0 THEN <<>>
        ELSE LET txData == results[1]
             IN  <<[fromAddress |-> txData.from_address, toAddress |-> txData.to_address,
                    amount |-> txData.amount, timestamp |-> txData.timestamp,
                    signature |-> txData.signature, blockHash |-> txData.block_hash,
                    hash |-> txData.hash]>>

\* stands for null in a field that holds a number otherwise: the value of
\* a column that no INSERT has given a value
NullNumber == -2

InvalidTransactionError == <<"Invalid transaction in block null">>

InvalidBlockHashError == <<"Invalid block hash for block null">>

InvalidMerkleRootError == <<"Invalid Merkle root for block null">>

\* the err of a query the database has refused
DatabaseError == <<"database error">>

\* a promise that is never settled, a rejection with this message being
\* left unhandled: the rejection was raised inside an async callback of
\* db.query, which neither catches it nor calls reject
Unsettled(message) == [kind |-> "pending", value |-> message]

\* the process has ended on the unhandled rejection with this message
Exited(message) == [kind |-> "exit", value |-> message]

\* isChainValid() of a loaded Blockchain
IsLoadedChainValid(blocks) ==
    \A i \in 2..Len(blocks) :
        /\ blocks[i].hash = BlockCalculateHash(blocks[i], blocks[i].transactions)
        /\ blocks[i].previousHash = blocks[i - 1].hash
        /\ blocks[i].merkleRoot = CalculateMerkleRoot(blocks[i].transactions)

Loaded(blocks) == [kind |-> "loaded", value |-> blocks]

InvalidChainError == <<"Blockchain is invalid">>

\* the call has ended on a query the database refused
DatabaseFailed(ended) ==
    ended.kind \in {"thrown", "pending", "exit"} /\ ended.value = DatabaseError

\* the number of rows in the two tables
RowCount == Len(db.blocks) + Len(db.transactions)

\* the end of Blockchain.load() when the loop has loaded every block
BlockchainLoadEnds(blocks) ==
    IF ~IsLoadedChainValid(blocks) THEN Thrown(InvalidChainError) ELSE Loaded(blocks)

\* Blockchain.load() suspended on a statement it has sent: the chain of the
\* Blockchain it has built so far; the hashes of the block rows it has
\* still to load, the first of them being loaded, in the order the database
\* handed them back; the number of rows the tables held when it was called;
\* the statement the database has still to answer; and, inside Block.load,
\* the block built so far and the hashes of its transactions still to load
Loading(load) == [kind |-> "loading", value |-> load]

\* Blockchain.load() is called at time `now`: new Blockchain(), and SELECT *
\* FROM blocks ORDER BY index ASC is sent
BlockchainLoad(now) ==
    [blocks |-> <<[CreateGenesisBlock(now) EXCEPT !.transactions = <<>>]>>,
     rows |-> <<>>, seen |-> RowCount, statement |-> "blocks",
     block |-> NoObject, hashes |-> <<>>]

\* the loop of Blockchain.load() at its head: Block.load of the next row
\* sends SELECT * FROM blocks WHERE hash = ?; with no row left, the chain is
\* checked and the promise settled, in the same turn
LoadContinues(load) ==
    IF Len(load.rows) = 0 THEN BlockchainLoadEnds(load.blocks)
    ELSE Loading([load EXCEPT !.statement = "block", !.block = NoObject, !.hashes = <<>>])

\* the end of Block.load when its loop has loaded every transaction: the
\* two checks, then resolve(block), on which the loop of Blockchain.load()
\* pushes the block and goes on in the same turn; a reject is unhandled
BlockLoadEnds(load, exits) ==
    LET block == load.block
        failed == IF block.hash # BlockCalculateHash(block, block.transactions)
                  THEN InvalidBlockHashError
                  ELSE IF block.merkleRoot # CalculateMerkleRoot(block.transactions)
                  THEN InvalidMerkleRootError
                  ELSE <<>>
    IN  IF failed # <<>> THEN (IF exits THEN Exited(failed) ELSE Unsettled(failed))
        ELSE LoadContinues([load EXCEPT !.blocks = Append(@, block), !.rows = Tail(@)])

\* the loop of Block.load at its head: Transaction.load of the next hash
\* sends SELECT * FROM transactions WHERE hash = ?
TransactionLoadNext(load, exits) ==
    IF Len(load.hashes) = 0 THEN BlockLoadEnds(load, exits)
    ELSE Loading([load EXCEPT !.statement = "transaction"])

\* the number of rows the statement the load waits for gives when served
RowsAnswered(load) ==
    IF load.statement = "blocks" THEN Len(db.blocks)
    ELSE IF load.statement = "hashes"
    THEN Len(SelectSeq(db.transactions, LAMBDA row : row.block_hash = load.block.hash))
    ELSE 0

\* the callback of the statement the load waits for, with everything that
\* runs in its turn.  The database has refused the statement or has served
\* it from the rows it holds now, handing them back in `order`.  Only the
\* first callback can call the reject of load(); any later failure is a
\* rejection raised inside an async callback of db.query, which nothing
\* handles: the promise of load() stays unsettled, and the runtime either
\* goes on or, with `exits`, ends the process (Node.js 15 and later).
\* result.index is null, save() giving the column no value; hash, nonce and
\* merkleRoot of a loaded block are set from the row over what the
\* constructor computed for the empty list
LoadAnswered(load, served, order, exits) ==
    LET Fails(message) == IF exits THEN Exited(message) ELSE Unsettled(message)
    IN  IF load.statement = "blocks"
        THEN IF ~served THEN Thrown(DatabaseError)
             ELSE LoadContinues([load EXCEPT
                      !.rows = [k \in 1..Len(db.blocks) |-> db.blocks[order[k]].hash]])
        ELSE IF ~served THEN Fails(DatabaseError)
        ELSE IF load.statement = "block"
        THEN LET result == SelectSeq(db.blocks, LAMBDA row : row.hash = Head(load.rows))[1]
             IN  Loading([load EXCEPT
                     !.statement = "hashes",
                     !.block = [index |-> NullNumber, previousHash |-> result.previous_hash,
                                timestamp |-> result.timestamp, transactions |-> <<>>,
                                difficulty |-> result.difficulty,
                                merkleRoot |-> result.merkle_root,
                                nonce |-> result.nonce, hash |-> result.hash]])
        ELSE IF load.statement = "hashes"
        THEN LET txResults == SelectSeq(db.transactions,
                                        LAMBDA row : row.block_hash = load.block.hash)
             IN  TransactionLoadNext(
                     [load EXCEPT !.hashes = [k \in 1..Len(txResults) |-> txResults[order[k]].hash]],
                     exits)
        ELSE LET transaction == TransactionLoad(Head(load.hashes))[1]
                 valid == IsValidOutcome(transaction)
             IN  IF valid.kind = "thrown" THEN Fails(valid.value)
                 ELSE IF valid # Returned(<<"true">>) THEN Fails(InvalidTransactionError)
                 ELSE TransactionLoadNext(
                          [load EXCEPT !.block.transactions = Append(@, transaction),
                                       !.hashes = Tail(@)],
                          exits)

\* block.save() or tx.save() called on its own and suspended on its INSERT:
\* the table and the values sent
Saving(table, row) == [kind |-> "saving", value |-> [table |-> table, row |-> row]]

\* the callback of that INSERT.  The database has refused the statement, as
\* it does for a hash the table holds, or has stored the row.  tx.save()
\* then resolves; block.save() goes through the list of the block, which is
\* empty, and rejects with the error of new MerkleTree([])
SaveAnswered(save, served) ==
    IF ~served THEN Thrown(DatabaseError)
    ELSE IF save.table = "blocks" THEN Thrown(EmptyError)
    ELSE Returned(<<"results">>)

----------------------------------------------------------------------------
(* Inputs *)

Amounts == {-10, 0, 50}

\* the wallet the mining calls name as miningRewardAddress
RewardAddresses == {<<"A">>}

\* the recipient of the transactions of createSignedTx
B2 == <<"b2">>

BalanceAddresses == Wallets \cup {NotAKey, B2}

\* the values Date.now() may return: the system clock, which may be set
\* back between two readings
Now == 1..MaxTime

\* sender and recipient: two different wallets of the callers
Parties == {p \in Wallets \X Wallets : p[1] # p[2]}

\* new Transaction(...) followed by sign(...): transfers built by the
\* constructor with one reading of the clock and signed with the sender's key
Transfers ==
    {Sign(NewTransaction(p[1], p[2], a, ts), p[1]) : p \in Parties, a \in Amounts, ts \in Now}

\* createSignedTx(amount, toAddress) of the test helpers: the constructor
\* reads the clock (t1) and computes the hash, the timestamp is replaced by a
\* second reading (t2), and sign() signs the digest of the fields as they are
\* now; nothing recomputes the field hash
CreateSignedTx(publicKey, toAddress, amount, t1, t2) ==
    LET tx == NewTransaction(publicKey, toAddress, amount, t1)
    IN  Sign([tx EXCEPT !.timestamp = t2], publicKey)

\* createSignedTx(): the key pair is one generated for the call
\* (tests/helpers.js) or the one the ledger of the tests mines for (part_006)
SignedTxs ==
    {CreateSignedTx(w, B2, 10, t1, t2) : w \in Wallets, t1 \in Now, t2 \in Now}

\* what the tests make of a signed transaction: left unsigned, given an
\* empty or a foreign signature, or changed after signing (the amount, or an
\* address set to null or to a string that is no key)
Malformed(signed) ==
    LET tx == [signed EXCEPT !.signature = NULL]
    IN  {tx,
         [tx EXCEPT !.signature = <<>>],
         [tx EXCEPT !.signature = EcSign(IF tx.fromAddress = <<"A">> THEN <<"B">> ELSE <<"A">>,
                                         TransactionCalculateHash(tx))],
         [signed EXCEPT !.amount = 1000],
         [signed EXCEPT !.toAddress = NULL],
         [signed EXCEPT !.fromAddress = NULL],
         [signed EXCEPT !.fromAddress = NotAKey]}

\* the transaction objects a caller hands to addTransaction
TxInputs ==
    Transfers \cup SignedTxs
    \cup UNION {Malformed(tx) : tx \in {t \in Transfers : t.amount = 50} \cup SignedTxs}

RECURSIVE CountUserTxs(_)
CountUserTxs(txs) ==
    IF Len(txs) = 0 THEN 0
    ELSE (IF Head(txs).fromAddress # NULL THEN 1 ELSE 0) + CountUserTxs(Tail(txs))

RECURSIVE SumOverArrays(_)
SumOverArrays(ids) ==
    IF ids = {} THEN 0
    ELSE LET a == CHOOSE x \in ids : TRUE
         IN  CountUserTxs(arrays[a]) + SumOverArrays(ids \ {a})

\* user transactions (those with a sender) in all arrays
UserTxCount == SumOverArrays(DOMAIN arrays)

RECURSIVE SumOfLengths(_)
SumOfLengths(ids) ==
    IF ids = {} THEN 0
    ELSE LET a == CHOOSE x \in ids : TRUE
         IN  Len(arrays[a]) + SumOfLengths(ids \ {a})

\* reward transactions that failed mining calls have left behind
StaleRewards ==
    SumOfLengths(DOMAIN arrays) - UserTxCount - (Len(chain) - 1) - Cardinality(mining)

----------------------------------------------------------------------------
(* The database behind require('./db'): the tables blocks and transactions
   as the sequences of the rows INSERTed, each row a record of the columns
   the statement names.  The rows of merkle_nodes are never read back by the
   classes and are left out. *)

EmptyDb == [blocks |-> <<>>, transactions |-> <<>>]

\* a number as the database takes it: undefined is stored as NULL
DbNumber(n) == IF n = Undefined THEN NullNumber ELSE n

\* Block.save(): the values of INSERT INTO blocks; no column takes this.index
BlockRow(block) ==
    [hash |-> block.hash, previous_hash |-> block.previousHash, timestamp |-> block.timestamp,
     nonce |-> block.nonce, difficulty |-> DbNumber(block.difficulty),
     merkle_root |-> block.merkleRoot]

\* Transaction.save(): the values of INSERT INTO transactions
TxRow(tx) ==
    [hash |-> tx.hash, from_address |-> tx.fromAddress, to_address |-> tx.toAddress,
     amount |-> tx.amount, timestamp |-> tx.timestamp, signature |-> tx.signature,
     block_hash |-> tx.blockHash]

----------------------------------------------------------------------------
(* class Blockchain: operations *)

\* mutant: the ledger starts with a reward transaction waiting in the pool
InitWithPending ==
    /\ chain = <<CreateGenesisBlock(1)>>
    /\ arrays = (0 :> <<>>) @@ (1 :> <<NewTransaction(NULL, <<"A">>, miningReward, 1)>>)
    /\ pendingTransactions = 1
    /\ mining = {}
    /\ db = EmptyDb
    /\ txObj = NoObject
    /\ blockObj = NoObject
    /\ hashZeros = 0
    /\ tree = NoObject
    /\ outcome = NoOutcome

Init ==
    /\ chain = <<CreateGenesisBlock(1)>>
    /\ arrays = (0 :> <<>>) @@ (1 :> <<>>)
    /\ pendingTransactions = 1
    /\ mining = {}
    /\ db = EmptyDb
    /\ txObj = NoObject
    /\ blockObj = NoObject
    /\ hashZeros = 0
    /\ tree = NoObject
    /\ outcome = NoOutcome

NoError == ""

\* mutant: the amount is not examined
AddTransactionErrorNoAmount(transaction) ==
    IF transaction.fromAddress \in {NULL, <<>>} \/ transaction.toAddress \in {NULL, <<>>}
    THEN "Transaction must include from and to address."
    ELSE IF ~IsValid(transaction)
    THEN "Cannot add invalid transaction to the chain."
    ELSE NoError

\* the message of the Error addTransaction(transaction) throws, NoError
\* when it returns (it returns undefined)
AddTransactionError(transaction) ==
    IF transaction.fromAddress \in {NULL, <<>>} \/ transaction.toAddress \in {NULL, <<>>}
    THEN "Transaction must include from and to address."
    ELSE IF NotPositive(transaction.amount)
    THEN "Transaction amount should be greater than 0."
    ELSE IF ~IsValid(transaction)
    THEN "Cannot add invalid transaction to the chain."
    ELSE NoError

\* addTransaction(transaction)
\* what a call of addTransaction evaluates to: the function has no return
\* statement, so a call that does not throw yields undefined
AddTransactionReturn(transaction) ==
    IF AddTransactionError(transaction) = NoError THEN "undefined" ELSE "throws"

\* mutant: the accepted transaction is put first in the pool
AddTransactionFirst(transaction) ==
    /\ AddTransactionError(transaction) = NoError => UserTxCount < MaxTx
    /\ IF AddTransactionError(transaction) = NoError
       THEN arrays' = [arrays EXCEPT ![pendingTransactions] = <<transaction>> \o @]
       ELSE UNCHANGED arrays
    /\ UNCHANGED <<chain, pendingTransactions, mining>>

AddTransaction(transaction) ==
    /\ AddTransactionError(transaction) = NoError => UserTxCount < MaxTx
    /\ IF AddTransactionError(transaction) = NoError
       THEN arrays' = [arrays EXCEPT ![pendingTransactions] = Append(@, transaction)]
       ELSE UNCHANGED arrays
    /\ UNCHANGED <<chain, pendingTransactions, mining>>

\* getBalanceOfAddress(address): returns GetBalanceOfAddress(address)
GetBalance(address) ==
    /\ \E balance \in {GetBalanceOfAddress(address)} : TRUE
    /\ UNCHANGED ledger

\* mutant: the scan writes the recomputed hash back into the latest block
CheckChainRepairing ==
    /\ IsChainValid \in BOOLEAN
    /\ chain' = [chain EXCEPT ![Len(chain)].hash =
                    BlockCalculateHash(chain[Len(chain)], Txs(chain[Len(chain)].transactions))]
    /\ UNCHANGED <<arrays, pendingTransactions, mining>>

\* isChainValid(): returns IsChainValid
CheckChain ==
    /\ IsChainValid \in BOOLEAN
    /\ UNCHANGED ledger

\* mutant: sender and recipient of the reward exchanged
RewardTxSwapped(miningRewardAddress, timestamp) ==
    NewTransaction(miningRewardAddress, NULL, miningReward, timestamp)

\* new Transaction(null, miningRewardAddress, this.miningReward)
RewardTx(miningRewardAddress, timestamp) ==
    NewTransaction(NULL, miningRewardAddress, miningReward, timestamp)

\* mutant: the reward is put in front of the pool (unshift)
PushRewardFirst(pool, rewardTx) == <<rewardTx>> \o pool

\* this.pendingTransactions.push(rewardTx)
PushReward(pool, rewardTx) == Append(pool, rewardTx)

\* minePendingTransactions(miningRewardAddress), up to its `await`: the
\* reward is pushed into the pool, the block is built on the pool array
\* itself and mined, and block.save() sends its INSERT INTO blocks.
\* Date.now() is read for the reward and again for the block.  When the
\* Block constructor throws, the call ends with the reward left in the pool.
MineStart(miningRewardAddress) ==
    /\ Len(chain) + Cardinality(mining) + StaleRewards < MaxChain
    /\ \E t1 \in Now : \E t2 \in Now :
         LET rewardTx == RewardTx(miningRewardAddress, t1)
             txs == PushReward(Pool, rewardTx)
             built == NewBlock(Len(chain), GetLatestBlock.hash, t2,
                               pendingTransactions, txs, difficulty)
         IN  /\ arrays' = [arrays EXCEPT ![pendingTransactions] = txs]
             /\ IF built.merkleRoot = MaxDepthError
                THEN UNCHANGED mining
                ELSE mining' = mining \cup
                          {[block |-> MineBlock(built, txs, difficulty),
                            miningRewardAddress |-> miningRewardAddress,
                            stage |-> "block", saved |-> 0, callPool |-> Pool]}
    /\ UNCHANGED <<chain, pendingTransactions>>

\* Block.save(): the callback of INSERT INTO blocks runs without error; the
\* loop over this.transactions stamps the first one and sends its INSERT
BlockRowSaved(op) ==
    /\ op.stage = "block"
    /\ Len(Txs(op.block.transactions)) > 0
    /\ arrays' = [arrays EXCEPT ![op.block.transactions][1].blockHash = op.block.hash]
    /\ mining' = (mining \ {op}) \cup {[op EXCEPT !.stage = "tx", !.saved = 1]}
    /\ UNCHANGED <<chain, pendingTransactions>>

\* Block.save(): `await tx.save()` resumes; the loop goes on to the next
\* element of the (live) array or, past its end, builds the Merkle tree and
\* starts saveNodesToDatabase
TxRowSaved(op) ==
    /\ op.stage = "tx"
    /\ IF op.saved < Len(Txs(op.block.transactions))
       THEN /\ arrays' = [arrays EXCEPT
                            ![op.block.transactions][op.saved + 1].blockHash = op.block.hash]
            /\ mining' = (mining \ {op}) \cup {[op EXCEPT !.saved = @ + 1]}
       ELSE /\ UNCHANGED arrays
            /\ mining' = (mining \ {op}) \cup {[op EXCEPT !.stage = "merkle"]}
    /\ UNCHANGED <<chain, pendingTransactions>>

\* mutant: the new block overwrites the latest block instead of being pushed
MerkleNodesSavedOverwrite(op) ==
    /\ op.stage = "merkle"
    /\ chain' = [chain EXCEPT ![Len(chain)] = op.block]
    /\ LET fresh == Cardinality(DOMAIN arrays)
       IN  /\ arrays' = arrays @@ (fresh :> <<>>)
           /\ pendingTransactions' = fresh
    /\ mining' = mining \ {op}

\* Block.save() resolves once the Merkle nodes are stored, and
\* minePendingTransactions resumes after its `await`: the block is pushed
\* onto the chain and the pool becomes a new empty array
MerkleNodesSaved(op) ==
    /\ op.stage = "merkle"
    /\ chain' = Append(chain, op.block)
    /\ LET fresh == Cardinality(DOMAIN arrays)
       IN  /\ arrays' = arrays @@ (fresh :> <<>>)
           /\ pendingTransactions' = fresh
    /\ mining' = mining \ {op}

\* mutant: the block was pushed onto the chain before the `await`
SaveFailsAfterPush(op) ==
    /\ StaleRewards < MaxFailed
    /\ mining' = mining \ {op}
    /\ chain' = Append(chain, op.block)
    /\ UNCHANGED <<arrays, pendingTransactions>>

\* Block.save() rejects: the database reports an error for the statement
\* in progress, and minePendingTransactions rejects at its `await`
SaveFails(op) ==
    /\ StaleRewards < MaxFailed
    /\ mining' = mining \ {op}
    /\ UNCHANGED <<chain, arrays, pendingTransactions>>

----------------------------------------------------------------------------
(* Writes from outside the class, as the tests make them *)

Altered(i) == chain[i].hash # BlockCalculateHash(chain[i], Txs(chain[i].transactions))

AlteredBlocks == {i \in 1..Len(chain) : Altered(i)}

\* blockchain.chain[i].hash = 'tampered_hash'
TamperHash(i) ==
    /\ Cardinality(AlteredBlocks) < MaxTamper
    /\ chain' = [chain EXCEPT ![i].hash = <<"tampered_hash">>]
    /\ UNCHANGED <<arrays, pendingTransactions, mining>>

\* blockchain.chain[i].timestamp = 0, a value the clock never had
TamperTimestamp(i) ==
    /\ Cardinality(AlteredBlocks) < MaxTamper
    /\ chain' = [chain EXCEPT ![i].timestamp = 0]
    /\ UNCHANGED <<arrays, pendingTransactions, mining>>

\* blockchain.chain[i].nonce = 1; mining with difficulty 0 leaves the nonce 0
TamperNonce(i) ==
    /\ Cardinality(AlteredBlocks) < MaxTamper
    /\ chain' = [chain EXCEPT ![i].nonce = 1]
    /\ UNCHANGED <<arrays, pendingTransactions, mining>>

\* blockchain.chain[i].previousHash = 'tampered_link'
TamperPreviousHash(i) ==
    /\ Cardinality(AlteredBlocks) < MaxTamper
    /\ chain' = [chain EXCEPT ![i].previousHash = <<"tampered_link">>]
    /\ UNCHANGED <<arrays, pendingTransactions, mining>>

\* blockchain.chain[i].merkleRoot = 'tampered_root'
TamperMerkleRoot(i) ==
    /\ Cardinality(AlteredBlocks) < MaxTamper
    /\ chain' = [chain EXCEPT ![i].merkleRoot = <<"tampered_root">>]
    /\ UNCHANGED <<arrays, pendingTransactions, mining>>

\* createSignedTx({ amount: -10 }): the argument is the amount itself, so the
\* transaction of the test carries the object as its amount
InvalidTxs ==
    {CreateSignedTx(w, B2, ObjectAmount, t1, t2) : w \in Wallets, t1 \in Now, t2 \in Now}

\* blockchain.chain[i].transactions.push(invalidTx)
TamperPushTx(i) ==
    /\ Cardinality(AlteredBlocks) < MaxTamper
    /\ UserTxCount < MaxTx
    /\ \E tx \in InvalidTxs :
         arrays' = [arrays EXCEPT ![chain[i].transactions] = Append(@, tx)]
    /\ UNCHANGED <<chain, pendingTransactions, mining>>

\* blockchain.chain[i].transactions[k].amount = 1000
TamperAmount(i) ==
    /\ Cardinality(AlteredBlocks) < MaxTamper
    /\ \E k \in 1..Len(Txs(chain[i].transactions)) :
         arrays' = [arrays EXCEPT ![chain[i].transactions][k].amount = 1000]
    /\ UNCHANGED <<chain, pendingTransactions, mining>>

\* transaction objects whose isValid() is false
UnverifiedTxs == {tx \in TxInputs : ~IsValid(tx)}

\* blockchain.pendingTransactions.push(tx): the pool is a public field and
\* the tests fill it without going through addTransaction
DirectPush(tx) ==
    /\ UserTxCount < MaxTx
    /\ arrays' = [arrays EXCEPT ![pendingTransactions] = Append(@, tx)]
    /\ UNCHANGED <<chain, pendingTransactions, mining>>

----------------------------------------------------------------------------
(* A Block on its own, as the unit tests build and change one *)

\* transactions as createSignedTx() makes them within one reading of the
\* clock, and one changed after signing (badTx.amount = 1337)
BlockTestTxs ==
    LET signed == {tx \in SignedTxs : tx.timestamp = 1 /\ tx.hash = TransactionCalculateHash(tx)}
    IN  signed \cup {[tx EXCEPT !.amount = 1337] : tx \in signed}

\* transaction lists of up to two entries
BlockTestLists ==
    {<<>>} \cup {<<t>> : t \in BlockTestTxs} \cup {<<t, u>> : t \in BlockTestTxs, u \in BlockTestTxs}

\* the lists a Block is constructed with: [createSignedTx()] in the tests,
\* [] in Block.load
BlockNewLists == {<<>>} \cup {<<t>> : t \in BlockTestTxs}

\* the hash is the digest of a block without transactions, whose characters
\* DigestTable has; any other digest of a block depends on the key pair
\* generated for the run
Tabulated(hash) == \E row \in DigestTable : row[1] = hash

\* the number of '0' characters the stored hash of blockObj starts with,
\* counted up to MaxDifficulty: read from the digest where the characters
\* are known, and otherwise what the run has produced, which hashZeros
\* keeps from the moment the hash is computed
HashZeros == IF Tabulated(blockObj.hash) THEN LeadingZeros(blockObj.hash) ELSE hashZeros

\* blockObj = new Block(1, 'a1', Date.now(), transactions, 1)
InitBlock ==
    /\ chain = <<>>
    /\ pendingTransactions = NoObject
    /\ mining = {}
    /\ db = EmptyDb
    /\ txObj = NoObject
    /\ tree = NoObject
    /\ outcome = NoOutcome
    /\ \E ts \in Now : \E txs \in BlockNewLists :
         /\ arrays = (0 :> txs)
         /\ blockObj = NewBlock(1, <<"a1">>, ts, 0, txs, 1)
    /\ hashZeros \in (IF Tabulated(blockObj.hash) THEN {0} ELSE 0..MaxDifficulty)

\* blockObj.timestamp = ts
BlockSetTimestamp(ts) ==
    /\ blockObj' = [blockObj EXCEPT !.timestamp = ts]
    /\ UNCHANGED <<chain, arrays, pendingTransactions, mining, db, txObj, hashZeros, tree, outcome>>

\* blockObj.transactions = txs: the block holds a new array; merkleRoot and
\* hash stay what the constructor computed
BlockSetTransactions(txs) ==
    /\ arrays' = (0 :> txs)
    /\ UNCHANGED <<chain, pendingTransactions, mining, db, txObj, blockObj, hashZeros, tree,
                   outcome>>

\* the block with this nonce and the hash calculateHash() gives for it
Rehashed(block, txs, nonce) ==
    LET b == [block EXCEPT !.nonce = nonce]
    IN  [b EXCEPT !.hash = BlockCalculateHash(b, txs)]

\* what blockObj.mineBlock(d) may leave: the block, and the leading zeros
\* of its hash where the run decides them.  The loop is not entered when
\* the stored hash has the d zeros.  Where the characters of the digests
\* are known the search is followed digest by digest; where they depend
\* on the key pair of the run, the search ends after any number of rounds,
\* of which up to MaxSearch are followed, on a digest with d zeros or more
MineBlockOutcomes(d) ==
    LET txs == Txs(blockObj.transactions)
        next == Rehashed(blockObj, txs, blockObj.nonce + 1)
    IN  IF d = 0 \/ HashZeros >= d
        THEN {[block |-> blockObj, zeros |-> hashZeros]}
        ELSE IF Tabulated(next.hash)
        THEN {[block |-> MineBlock(next, txs, d), zeros |-> 0]}
        ELSE {[block |-> Rehashed(blockObj, txs, blockObj.nonce + n), zeros |-> z] :
                 n \in 1..MaxSearch, z \in d..MaxDifficulty}

\* blockObj.mineBlock(d)
BlockMine(d) ==
    /\ \E mined \in MineBlockOutcomes(d) :
          /\ blockObj' = mined.block
          /\ hashZeros' = mined.zeros
    /\ UNCHANGED <<chain, arrays, pendingTransactions, mining, db, txObj, tree, outcome>>

\* blockObj.hasValidTransactions(): returns HasValidTransactions of the list
BlockHasValid ==
    /\ outcome' = HasValidTransactionsOutcome(Txs(blockObj.transactions))
    /\ UNCHANGED <<chain, arrays, pendingTransactions, mining, db, txObj, blockObj, hashZeros, tree>>

----------------------------------------------------------------------------
(* A Transaction on its own, as the tests of the Transaction class use it *)

TxFromValues == Wallets \cup {NULL, NotAKey}

\* the recipients the tests construct with, and the null they assign
TxToValues == {<<"B">>, <<"b2">>, NULL}

TxAmountValues == {10, -10}

TxSignatureValues == {NULL, <<>>, <<"invalid">>}

\* txObj = new Transaction(fromAddress, toAddress, 10) at some Date.now();
\* with both addresses null the constructor throws and there is no object
InitTx ==
    /\ chain = <<>>
    /\ arrays = <<>>
    /\ pendingTransactions = NoObject
    /\ mining = {}
    /\ db = EmptyDb
    /\ blockObj = NoObject
    /\ hashZeros = 0
    /\ tree = NoObject
    /\ outcome = NoOutcome
    /\ \E f \in TxFromValues : \E t \in TxToValues : \E ts \in 1..MaxTime :
         /\ ~(f = NULL /\ t = NULL)
         /\ txObj = NewTransaction(f, t, 10, ts)

\* an assignment to a field of txObj: nothing else of the object changes
TxAssign(object) ==
    /\ txObj' = object
    /\ outcome' = NoOutcome
    /\ UNCHANGED <<chain, arrays, pendingTransactions, mining, db, blockObj, hashZeros, tree>>

TxSetTimestamp(ts) == TxAssign([txObj EXCEPT !.timestamp = ts])

TxSetAmount(a) == TxAssign([txObj EXCEPT !.amount = a])

TxSetFromAddress(v) == TxAssign([txObj EXCEPT !.fromAddress = v])

TxSetToAddress(v) == TxAssign([txObj EXCEPT !.toAddress = v])

TxSetSignature(sig) == TxAssign([txObj EXCEPT !.signature = sig])

\* txObj.sign(keyPair) with keyPair.getPublic('hex') = publicKey
TxSign(publicKey) ==
    /\ txObj' = Sign(txObj, publicKey)
    /\ outcome' = SignOutcome(txObj, publicKey)
    /\ UNCHANGED <<chain, arrays, pendingTransactions, mining, db, blockObj, hashZeros, tree>>

\* txObj.isValid()
TxIsValid ==
    /\ outcome' = IsValidOutcome(txObj)
    /\ UNCHANGED <<chain, arrays, pendingTransactions, mining, db, txObj, blockObj, hashZeros, tree>>

----------------------------------------------------------------------------
(* A MerkleTree on its own *)

LeafValues == {<<"a">>, <<"b">>, <<"c">>}

\* lists of up to MaxDistinct values chosen one by one
RECURSIVE ListsOf(_)
ListsOf(n) ==
    IF n = 0 THEN {<<>>}
    ELSE {Append(l, v) : l \in ListsOf(n - 1), v \in LeafValues}

\* the lists a tree is built from: never empty (the constructor refuses an
\* empty list before it builds anything)
TreeInputs ==
    UNION {ListsOf(n) : n \in 1..MaxDistinct}
        \cup {[i \in 1..n |-> <<"a">>] : n \in 1..MaxLeaves}

\* the leaf hashes getProof and verifyProof are asked about: those of the
\* values above and of a value that is in no list
ProbeLeaves == {NodeHash(v) : v \in LeafValues \cup {<<"d">>}}

\* what the caller of new MerkleTree(values) gets
ConstructOutcome(root) ==
    IF root.value \in {MaxDepthError, EmptyError, NoNodesError} THEN Thrown(root.value)
    ELSE Returned(<<"MerkleTree">>)

\* tree = new MerkleTree(values)
InitMerkle ==
    /\ chain = <<>>
    /\ arrays = <<>>
    /\ pendingTransactions = NoObject
    /\ mining = {}
    /\ db = EmptyDb
    /\ txObj = NoObject
    /\ blockObj = NoObject
    /\ hashZeros = 0
    /\ \E values \in TreeInputs :
         /\ tree = [values |-> values, root |-> BuildTree(values)]
         /\ outcome = ConstructOutcome(tree.root)

\* the constructor returned an object
Constructed == tree.root.value \notin {MaxDepthError, EmptyError, NoNodesError}

\* tree.getProof(leafValue)
TreeGetProof(leafValue) ==
    /\ Constructed
    /\ outcome' = GetProof(tree.root, leafValue)
    /\ UNCHANGED <<chain, arrays, pendingTransactions, mining, db, txObj, blockObj, hashZeros, tree>>

\* MerkleTree.verifyProof(leafValue, proof, tree.getRootHash()) with the
\* proof that getProof(leafValue) has just returned
TreeVerifyProof(leafValue) ==
    /\ Constructed
    /\ outcome.kind = "list"
    /\ GetProof(tree.root, leafValue).kind = "list"
    /\ outcome = GetProof(tree.root, leafValue)
    /\ outcome' = Returned(BoolToken(VerifyProof(leafValue, outcome.value, tree.root.value)))
    /\ UNCHANGED <<chain, arrays, pendingTransactions, mining, db, txObj, blockObj, hashZeros, tree>>

\* values that all differ
DistinctValues == <<<<"a">>, <<"b">>, <<"c">>, <<"e">>, <<"f">>, <<"g">>, <<"h">>, <<"i">>>>

\* the arguments of the constructor: no argument, an empty list, short lists
\* of any values and lists of up to MaxPrefix values that all differ
RootInputs ==
    {[given |-> FALSE, values |-> <<>>], [given |-> TRUE, values |-> <<>>]}
        \cup {[given |-> TRUE, values |-> l] : l \in UNION {ListsOf(n) : n \in 1..MaxDistinct}}
        \cup {[given |-> TRUE, values |-> SubSeq(DistinctValues, 1, n)] : n \in 1..MaxPrefix}

\* tree = new MerkleTree(values), next to a Block built with an empty list
\* of transactions: blockObj = new Block(1, 'a1', 1, [], 1)
InitRoot ==
    /\ chain = <<>>
    /\ arrays = (0 :> <<>>)
    /\ pendingTransactions = NoObject
    /\ mining = {}
    /\ db = EmptyDb
    /\ txObj = NoObject
    /\ blockObj = NewBlock(1, <<"a1">>, 1, 0, <<>>, 1)
    /\ hashZeros = 0
    /\ \E args \in RootInputs :
         /\ tree = [given |-> args.given, values |-> args.values, root |-> NewMerkleTree(args)]
         /\ outcome = ConstructOutcome(tree.root)

\* new MerkleTree(values).getRootHash() on the list the tree was built from
TreeBuildAgain ==
    /\ Constructed
    /\ outcome' = Returned(GetRootHash(tree.values))
    /\ UNCHANGED <<chain, arrays, pendingTransactions, mining, db, txObj, blockObj, hashZeros, tree>>

\* new MerkleTree(other).getRootHash() on the list with its k-th value
\* replaced by another one
TreeBuildReplaced(k, v) ==
    /\ Constructed
    /\ k \in 1..Len(tree.values)
    /\ v # tree.values[k]
    /\ outcome' = Returned(GetRootHash([tree.values EXCEPT ![k] = v]))
    /\ UNCHANGED <<chain, arrays, pendingTransactions, mining, db, txObj, blockObj, hashZeros, tree>>

----------------------------------------------------------------------------
(* Specifications *)

Idle == mining = {}

\* the inputs addTransaction throws on, and those it takes
RejectedInputs == {tx \in TxInputs : AddTransactionError(tx) # NoError}

AcceptedInputs == TxInputs \ RejectedInputs

\* addTransaction(tx) with a transaction of TxInputs.  A call that throws
\* leaves everything as it was, whichever transaction it was given: the
\* steps of all rejected inputs are one and the same step, taken here with
\* one of them
AddsInput ==
    \/ \E tx \in AcceptedInputs : AddTransaction(tx)
    \/ \E tx \in {CHOOSE r \in RejectedInputs : TRUE} : AddTransaction(tx)

\* every call is completed before the next one starts
SerialAdd == (Idle /\ AddsInput) /\ UNCHANGED objects

SerialMine == (Idle /\ \E a \in RewardAddresses : MineStart(a)) /\ UNCHANGED objects

SerialBalance == (Idle /\ \E a \in BalanceAddresses : GetBalance(a)) /\ UNCHANGED objects

SerialCheck == Idle /\ CheckChain /\ UNCHANGED objects

SaveProceeds == (\E op \in mining : BlockRowSaved(op) \/ TxRowSaved(op)) /\ UNCHANGED objects

MineCompletes == (\E op \in mining : MerkleNodesSaved(op)) /\ UNCHANGED objects

MineFails == (\E op \in mining : SaveFails(op)) /\ UNCHANGED objects

Next ==
    \/ SerialAdd
    \/ SerialMine
    \/ SaveProceeds
    \/ MineCompletes
    \/ MineFails
    \/ SerialBalance
    \/ SerialCheck

Spec == Init /\ [][Next]_vars

\* calls may start while a mining call is suspended in its await
ConcurrentAdd == AddsInput /\ UNCHANGED objects

ConcurrentMine ==
    /\ Cardinality(mining) < MaxInflight
    /\ \E a \in RewardAddresses : MineStart(a)
    /\ UNCHANGED objects

ConcurrentCheck == CheckChain /\ UNCHANGED objects

ConcurrentBalance == (\E a \in BalanceAddresses : GetBalance(a)) /\ UNCHANGED objects

NextConcurrent ==
    \/ ConcurrentAdd
    \/ ConcurrentMine
    \/ SaveProceeds
    \/ MineCompletes
    \/ MineFails
    \/ ConcurrentBalance
    \/ ConcurrentCheck

SpecConcurrent == Init /\ [][NextConcurrent]_vars

\* serial calls, with outside writes to the blocks of the chain between them
SerialTamper ==
    /\ Idle
    /\ \E i \in 1..Len(chain) :
         \/ TamperHash(i)
         \/ TamperTimestamp(i)
         \/ TamperNonce(i)
         \/ TamperPreviousHash(i)
         \/ TamperMerkleRoot(i)
         \/ TamperPushTx(i)
         \/ TamperAmount(i)
    /\ UNCHANGED objects

NextTamper ==
    \/ SerialAdd
    \/ SerialMine
    \/ SaveProceeds
    \/ MineCompletes
    \/ MineFails
    \/ SerialBalance
    \/ SerialCheck
    \/ SerialTamper

SpecTamper == Init /\ [][NextTamper]_vars

\* serial calls, with outside writes to the pool between them
SerialDirect == (Idle /\ \E tx \in UnverifiedTxs : DirectPush(tx)) /\ UNCHANGED objects

NextDirect ==
    \/ SerialAdd
    \/ SerialMine
    \/ SaveProceeds
    \/ MineCompletes
    \/ MineFails
    \/ SerialBalance
    \/ SerialCheck
    \/ SerialDirect

SpecDirect == Init /\ [][NextDirect]_vars

\* serial calls with the database followed, and Blockchain.load() between them
\* the process is running
Running == outcome.kind # "exit"

\* a call of load() or of save() on its own is under way
Suspended == outcome.kind \in {"loading", "saving"}

\* a settled outcome is not kept; a call under way stays under way
Forgotten ==
    /\ Running
    /\ outcome' = (IF Suspended THEN outcome ELSE NoOutcome)
    /\ UNCHANGED <<txObj, blockObj, hashZeros, tree>>

\* hash is the key of both tables: an INSERT of a hash the table holds is
\* refused with an error
HasKey(table, hash) == \E k \in 1..Len(table) : table[k].hash = hash

\* the row the INSERT INTO blocks of Block.save() has stored
BlockRowStored(op) ==
    /\ ~HasKey(db.blocks, op.block.hash)
    /\ db' = [db EXCEPT !.blocks = Append(@, BlockRow(op.block))]

\* the row the INSERT of the tx.save() that has just resumed has stored: the
\* values it was called with, right after tx.blockHash = this.hash
TxRowStored(op) ==
    LET tx == Txs(op.block.transactions)[op.saved]
    IN  /\ ~HasKey(db.transactions, tx.hash)
        /\ db' = [db EXCEPT !.transactions = Append(@, TxRow([tx EXCEPT !.blockHash = op.block.hash]))]

\* the callers make one call at a time: no call is made while a call of
\* load() or of save() on its own is under way; the callbacks of a
\* minePendingTransactions under way run in between
StoreAdd == (Idle /\ ~Suspended /\ AddsInput) /\ UNCHANGED db /\ Forgotten

StoreMine ==
    (Idle /\ ~Suspended /\ \E a \in RewardAddresses : MineStart(a)) /\ UNCHANGED db /\ Forgotten

StoreBlockSaved == (\E op \in mining : BlockRowSaved(op) /\ BlockRowStored(op)) /\ Forgotten

StoreTxSaved == (\E op \in mining : TxRowSaved(op) /\ TxRowStored(op)) /\ Forgotten

StoreMineCompletes == (\E op \in mining : MerkleNodesSaved(op)) /\ UNCHANGED db /\ Forgotten

StoreMineFails == (\E op \in mining : SaveFails(op)) /\ UNCHANGED db /\ Forgotten

\* Blockchain.load() is called on the class while no call of load() or of
\* save() on its own is under way: between two calls, or amid the callbacks
\* of a minePendingTransactions while fewer than MaxOverlap block rows are
\* stored.  The ledger in memory is left as it is
StoreLoadCalled ==
    /\ Running
    /\ Idle \/ Len(db.blocks) < MaxOverlap
    /\ ~Suspended
    /\ \E now \in Now : outcome' = Loading(BlockchainLoad(now))
    /\ UNCHANGED <<chain, arrays, pendingTransactions, mining, db, txObj, blockObj, hashZeros, tree>>

\* the database answers the statement the load waits for
StoreLoadAnswered ==
    /\ Running
    /\ outcome.kind = "loading"
    /\ outcome' \in {LoadAnswered(outcome.value, served, order, exits) :
                       served \in BOOLEAN, exits \in BOOLEAN,
                       order \in Orders(RowsAnswered(outcome.value))}
    /\ UNCHANGED <<chain, arrays, pendingTransactions, mining, db, txObj, blockObj, hashZeros, tree>>

\* the blocks of the chain without transactions: the genesis block.  save()
\* called on another block of the chain finds its row stored
BlocksToSave == {i \in 1..Len(chain) : Len(Txs(chain[i].transactions)) = 0}

\* blockchain.chain[i].save() called on its own: the INSERT is sent
StoreBlockSaveCalled ==
    /\ Running
    /\ Idle
    /\ ~Suspended
    /\ RowCount < MaxDirect
    /\ \E i \in BlocksToSave : outcome' = Saving("blocks", BlockRow(chain[i]))
    /\ UNCHANGED <<chain, arrays, pendingTransactions, mining, db, txObj, blockObj, hashZeros, tree>>

\* tx.save() called on its own on a transaction of the pool: the INSERT is
\* sent
StoreTxSaveCalled ==
    /\ Running
    /\ Idle
    /\ ~Suspended
    /\ RowCount < MaxDirect
    /\ \E k \in 1..Len(Pool) : outcome' = Saving("transactions", TxRow(Pool[k]))
    /\ UNCHANGED <<chain, arrays, pendingTransactions, mining, db, txObj, blockObj, hashZeros, tree>>

\* the database answers the INSERT of the save() called on its own
StoreSaveAnswered ==
    /\ Running
    /\ outcome.kind = "saving"
    /\ \E served \in BOOLEAN :
          /\ served => ~HasKey(db[outcome.value.table], outcome.value.row.hash)
          /\ outcome' = SaveAnswered(outcome.value, served)
          /\ db' = (IF served
                    THEN [db EXCEPT ![outcome.value.table] = Append(@, outcome.value.row)]
                    ELSE db)
    /\ UNCHANGED <<chain, arrays, pendingTransactions, mining, txObj, blockObj, hashZeros, tree>>

NextStore ==
    \/ StoreAdd
    \/ StoreMine
    \/ StoreBlockSaved
    \/ StoreTxSaved
    \/ StoreMineCompletes
    \/ StoreMineFails
    \/ StoreLoadCalled
    \/ StoreLoadAnswered
    \/ StoreBlockSaveCalled
    \/ StoreTxSaveCalled
    \/ StoreSaveAnswered

SpecStore == Init /\ [][NextStore]_vars

\* calls and writes on a Block that is in no chain
SetsTimestamp == \E ts \in 1..MaxTime : BlockSetTimestamp(ts)

Mines == \E d \in 0..MaxDifficulty : BlockMine(d)

SetsTransactions == \E txs \in BlockTestLists : BlockSetTransactions(txs)

NextBlock ==
    \/ SetsTimestamp
    \/ SetsTransactions
    \/ Mines
    \/ BlockHasValid

SpecBlock == InitBlock /\ [][NextBlock]_vars

\* calls and writes on a Transaction that is in no pool and no block
SetsTxTimestamp == \E ts \in 1..MaxTime : TxSetTimestamp(ts)

SetsAmount == \E a \in TxAmountValues : TxSetAmount(a)

SetsFromAddress == \E v \in TxFromValues : TxSetFromAddress(v)

SetsToAddress == \E v \in TxToValues : TxSetToAddress(v)

SetsSignature == \E sig \in TxSignatureValues : TxSetSignature(sig)

Signs == \E publicKey \in Wallets : TxSign(publicKey)

NextTx ==
    \/ SetsTxTimestamp
    \/ SetsAmount
    \/ SetsFromAddress
    \/ SetsToAddress
    \/ SetsSignature
    \/ Signs
    \/ TxIsValid

SpecTx == InitTx /\ [][NextTx]_vars

\* calls on a MerkleTree that belongs to no block
GetsProof == \E leafValue \in ProbeLeaves : TreeGetProof(leafValue)

VerifiesProof == \E leafValue \in ProbeLeaves : TreeVerifyProof(leafValue)

NextMerkle ==
    \/ GetsProof
    \/ VerifiesProof

SpecMerkle == InitMerkle /\ [][NextMerkle]_vars

\* a second tree built from the same list, or from the list with one value
\* replaced
BuildsReplaced ==
    \E k \in 1..MaxPrefix : \E v \in LeafValues \cup {<<"d">>} : TreeBuildReplaced(k, v)

NextRoot ==
    \/ TreeBuildAgain
    \/ BuildsReplaced

SpecRoot == InitRoot /\ [][NextRoot]_vars

----------------------------------------------------------------------------
(* Claims *)

A == <<"A">>

B == <<"B">>

\* the transactions of chain[i]
BlockTxs(i) == Txs(chain[i].transactions)

\* C1: after any sequence of completed addTransaction and
\* minePendingTransactions calls, every block after the first carries the
\* hash of the block before it as its previousHash.
C1_Linked == \A i \in 2..Len(chain) : chain[i].previousHash = chain[i - 1].hash

\* two blocks have been mined, the second on top of the first
C1_Witness == Idle /\ Len(chain) = 3 /\ chain[3].previousHash = chain[2].hash

\* the transaction lists of the blocks now in the chain stay as they are
SealedListsUnchanged ==
    \A i \in 1..Len(chain) : arrays'[chain[i].transactions] = arrays[chain[i].transactions]

\* C2: the chain is append-only and minePendingTransactions is its only
\* mutator: the step that completes a mining call lengthens the chain by
\* one block and leaves every earlier block, with its transaction list, as
\* it was; every other step (addTransaction, getBalanceOfAddress,
\* isChainValid, the earlier stages of mining, a failed mining call) leaves
\* the chain and the sealed transaction lists unchanged.
C2_AppendOnly ==
    [][/\ SealedListsUnchanged
       /\ IF MineCompletes
          THEN /\ Len(chain') = Len(chain) + 1
               /\ SubSeq(chain', 1, Len(chain)) = chain
          ELSE chain' = chain]_vars

\* a block holding a transfer was sealed, and another block after it
C2_Witness ==
    /\ Idle
    /\ Len(chain) = 3
    /\ CountUserTxs(BlockTxs(2)) = 1
    /\ Len(Pool) = 0

\* the amounts of the sender's transactions waiting in the pool
RECURSIVE PendingAmount(_, _)
PendingAmount(txs, address) ==
    IF Len(txs) = 0 THEN 0
    ELSE (IF Head(txs).fromAddress = address THEN Head(txs).amount ELSE 0)
           + PendingAmount(Tail(txs), address)

Overdraws(tx) ==
    tx.amount + PendingAmount(Pool, tx.fromAddress) > GetBalanceOfAddress(tx.fromAddress)

\* C3: addTransaction rejects, leaving pendingTransactions unchanged, every
\* validly signed transaction whose amount plus the sender's pending amounts
\* exceeds the sender's balance.
C3_RejectsOverdraft ==
    [][\A tx \in Transfers :
         (IsValid(tx) /\ tx.amount > 0 /\ Overdraws(tx) /\ AddTransaction(tx))
            => arrays'[pendingTransactions'] = Pool]_vars

\* C4: two mining calls never build on the same latest block: no two
\* blocks of the chain share their index or their previousHash.
C4_NoTwinBlocks ==
    \A i, j \in 1..Len(chain) :
        i # j => /\ chain[i].index # chain[j].index
                 /\ chain[i].previousHash # chain[j].previousHash

\* equal but for the blockHash stamp Block.save() puts on a transaction
SameTx(t1, t2) == [t1 EXCEPT !.blockHash = <<>>] = [t2 EXCEPT !.blockHash = <<>>]

\* C5: the step that completes minePendingTransactions(rewardAddress)
\* appends one block whose transaction list is the pool as it was when the
\* call started, in order, followed by one reward transaction (no sender,
\* rewardAddress as recipient, miningReward as amount), and leaves the pool
\* empty.
C5_SealsPoolAndReward ==
    [][\A op \in mining : MerkleNodesSaved(op) =>
         LET sealed == arrays'[chain'[Len(chain')].transactions]
             n == Len(op.callPool)
         IN  /\ Len(chain') = Len(chain) + 1
             /\ Len(sealed) = n + 1
             /\ \A i \in 1..n : SameTx(sealed[i], op.callPool[i])
             /\ sealed[n + 1].fromAddress = NULL
             /\ sealed[n + 1].toAddress = op.miningRewardAddress
             /\ sealed[n + 1].amount = miningReward
             /\ arrays'[pendingTransactions'] = <<>>]_vars

\* a block was sealed from a pool that held a transfer
C5_Witness ==
    /\ Idle
    /\ Len(Pool) = 0
    /\ \E i \in 2..Len(chain) :
         /\ Len(BlockTxs(i)) = 2
         /\ BlockTxs(i)[1].fromAddress \in Wallets
         /\ BlockTxs(i)[2].fromAddress = NULL

\* C6: when block.save() fails, the mined block is not appended: the chain
\* is what it was when the call started (as long as the block's index says,
\* ending in the block the new one was built on), with the same sealed
\* transaction lists.
C6_FailedSaveKeepsChain ==
    [][\A op \in mining : SaveFails(op) =>
         /\ chain' = chain
         /\ SealedListsUnchanged
         /\ Len(chain') = op.block.index
         /\ chain'[Len(chain')].hash = op.block.previousHash]_vars

\* a mining call has failed on a chain with a mined block: its reward is
\* still in the pool and the chain ends in the earlier block
C6_Witness ==
    /\ Idle
    /\ StaleRewards = 1
    /\ Len(chain) = 2
    /\ \E i \in 1..Len(Pool) : Pool[i].fromAddress = NULL

\* the three reasons of C7
Unacceptable(tx) ==
    \/ tx.fromAddress = NULL \/ tx.toAddress = NULL
    \/ tx.amount <= 0
    \/ ~(tx.signature # NULL /\ EcVerify(tx.fromAddress, TransactionCalculateHash(tx), tx.signature))

\* C7: when a transaction lacks an address, has an amount that is not
\* positive, or carries a signature that does not verify, addTransaction
\* throws an error and leaves pendingTransactions and the chain as they were.
C7_RejectionKeepsState ==
    [][\A tx \in TxInputs : Unacceptable(tx) =>
         /\ AddTransactionError(tx) # NoError
         /\ AddTransaction(tx) => UNCHANGED <<chain, arrays, pendingTransactions>>]_vars

\* a ledger with a mined block and a transfer in the pool, where
\* transactions of each of the three kinds are offered
C7_Witness ==
    /\ Idle
    /\ Len(chain) = 2
    /\ Len(Pool) = 1
    /\ \E tx \in TxInputs : tx.toAddress = NULL /\ AddTransactionError(tx) # NoError
    /\ \E tx \in TxInputs : tx.toAddress # NULL /\ tx.fromAddress # NULL /\ tx.amount <= 0
                             /\ AddTransactionError(tx) # NoError
    /\ \E tx \in TxInputs : tx.toAddress # NULL /\ tx.fromAddress # NULL /\ tx.amount > 0
                             /\ AddTransactionError(tx) # NoError

\* the sealed transactions, as the set of their places in the chain
SealedPlaces == {p \in (1..Len(chain)) \X (1..(MaxTx + MaxChain + MaxFailed)) : p[2] <= Len(BlockTxs(p[1]))}

RECURSIVE SumAmounts(_)
SumAmounts(places) ==
    IF places = {} THEN 0
    ELSE LET p == CHOOSE q \in places : TRUE
         IN  BlockTxs(p[1])[p[2]].amount + SumAmounts(places \ {p})

Received(address) == SumAmounts({p \in SealedPlaces : BlockTxs(p[1])[p[2]].toAddress = address})

Sent(address) == SumAmounts({p \in SealedPlaces : BlockTxs(p[1])[p[2]].fromAddress = address})

\* C8: getBalanceOfAddress(a) is what the sealed transactions of the chain
\* pay to a minus what they take from a; the transactions still in the pool
\* do not count.
C8_BalanceIsSealedNet ==
    \A a \in BalanceAddresses : GetBalanceOfAddress(a) = Received(a) - Sent(a)

\* reward to A, A pays B 50, reward to A again: A has 150 and B has 50
C8_Witness ==
    /\ Idle
    /\ Len(chain) = 3
    /\ GetBalanceOfAddress(A) = 150
    /\ GetBalanceOfAddress(B) = 50

\* C9: one mining call for A on a new ledger gives A a balance of 100 and a
\* chain of two blocks; in general the step that completes a mining call
\* changes every balance by what the pool's transactions pay and take, plus
\* miningReward for the reward address.
C9_MiningReward ==
    /\ []((Len(chain) = 2 /\ Len(BlockTxs(2)) = 1)
            => GetBalanceOfAddress(BlockTxs(2)[1].toAddress) = 100)
    /\ [][\A op \in mining : MerkleNodesSaved(op) =>
            \A a \in BalanceAddresses :
               GetBalanceOfAddress(a)' =
                  GetBalanceOfAddress(a) + JsValue(BalanceOfTxs(op.callPool, a, NumberValue(0)))
                     + (IF a = op.miningRewardAddress THEN miningReward ELSE 0)]_vars

\* the first mining call of a new ledger, for A, has completed
C9_Witness ==
    /\ Idle
    /\ Len(chain) = 2
    /\ Len(BlockTxs(2)) = 1
    /\ BlockTxs(2)[1].toAddress = A
    /\ GetBalanceOfAddress(A) = 100

\* C10: isChainValid returns false whenever the stored hash of the genesis
\* block differs from its recomputed hash.
C10_GenesisChecked == Altered(1) => ~IsChainValid

\* chain[i] carries a value that only an outside write puts there
HashedFieldAltered(i) ==
    \/ chain[i].timestamp = 0
    \/ chain[i].nonce = 1
    \/ chain[i].previousHash = <<"tampered_link">>
    \/ chain[i].merkleRoot = <<"tampered_root">>
    \/ \E k \in 1..Len(BlockTxs(i)) : BlockTxs(i)[k].amount \in {ObjectAmount, 1000}

\* no block was written to from outside
BuiltByMiningOnly ==
    \A i \in 1..Len(chain) : ~HashedFieldAltered(i) /\ chain[i].hash # <<"tampered_hash">>

\* C11: once a hashed field of a block after the genesis block was altered
\* without mining the block again (its timestamp, nonce, previousHash or
\* merkleRoot, a transaction pushed into its list or a transaction's amount),
\* isChainValid returns false; on a chain that mining alone has built it
\* returns true.
C11_TamperDetected ==
    /\ \A i \in 2..Len(chain) : HashedFieldAltered(i) => ~IsChainValid
    /\ BuiltByMiningOnly => IsChainValid

\* the timestamp of the first mined block was altered and another block
\* was mined afterwards
C11_Witness ==
    /\ Idle
    /\ Len(chain) = 3
    /\ chain[2].timestamp = 0
    /\ ~HashedFieldAltered(1)
    /\ ~IsChainValid

\* C12: isChainValid returns false whenever a block after the genesis
\* block holds a transaction whose isValid() is false, also when the block's
\* hash, link and Merkle root agree with its contents.
C12_InvalidTxDetected ==
    (\E i \in 2..Len(chain) : ~HasValidTransactions(BlockTxs(i))) => ~IsChainValid

\* C13: minePendingTransactions never appends a block that holds a
\* transaction whose isValid() is false: every transaction of every block of
\* the chain verifies.
C13_SealedTxsVerify ==
    \A i \in 1..Len(chain) : HasValidTransactions(BlockTxs(i))

\* C14: a newly constructed Blockchain has exactly one block, the genesis
\* block, an empty pool, and a balance of 0 for every address (the
\* conjuncts without primes speak of the first state of every behaviour),
\* and no call ever leaves the chain without a block.
C14_FreshLedger ==
    /\ Len(chain) = 1
    /\ chain[1].index = 0
    /\ Len(Pool) = 0
    /\ \A a \in BalanceAddresses : GetBalanceOfAddress(a) = 0
    /\ [][Len(chain') >= 1]_vars

\* the ledger as the constructor leaves it, before any call
C14_Witness ==
    /\ Idle
    /\ Len(chain) = 1
    /\ Len(Pool) = 0
    /\ Cardinality(DOMAIN arrays) = 2
    /\ \A a \in BalanceAddresses : GetBalanceOfAddress(a) = 0

\* C15: the genesis block the constructor creates has index 0, previousHash
\* "0", no transactions, and the chain's initial difficulty (0) as its
\* difficulty.
C15_GenesisFields ==
    /\ chain[1].index = 0
    /\ chain[1].previousHash = <<"0">>
    /\ BlockTxs(1) = <<>>
    /\ chain[1].difficulty = difficulty

C17_ReadsOnly ==
    [][(CheckChain \/ \E a \in BalanceAddresses : GetBalance(a))
          => UNCHANGED <<chain, arrays, pendingTransactions>>]_vars

\* both reads are enabled on a chain that isChainValid rejects, where a
\* balance is not zero
C17_Witness ==
    /\ Idle
    /\ Len(chain) = 3
    /\ ~IsChainValid
    /\ BalanceOfBlocks(chain, arrays, A, NumberValue(0)) = NumberValue(2 * miningReward)
    /\ ENABLED CheckChain
    /\ ENABLED GetBalance(A)

\* what addTransaction accepts
Acceptable(tx) ==
    /\ tx.fromAddress \notin {NULL, <<>>}
    /\ tx.toAddress \notin {NULL, <<>>}
    /\ tx.amount > 0
    /\ tx.signature \notin {NULL, <<>>}
    /\ EcVerify(tx.fromAddress, TransactionCalculateHash(tx), tx.signature)

\* C18: when addTransaction accepts a transaction (both addresses present,
\* amount > 0, signature verifies), the pool grows by that transaction,
\* placed last; the earlier pool entries, the chain and the sealed lists stay
\* as they were.
C18_AcceptAppends ==
    [][\A tx \in TxInputs : (Acceptable(tx) /\ AddTransaction(tx)) =>
         /\ arrays'[pendingTransactions'] = Append(Pool, tx)
         /\ chain' = chain
         /\ SealedListsUnchanged]_vars

\* a transfer was accepted into a pool that already held an entry (the
\* reward a failed mining call left behind)
C18_Witness ==
    /\ Idle
    /\ Len(Pool) = 2
    /\ Pool[1].fromAddress = NULL
    /\ Acceptable(Pool[2])

\* C19: addTransaction reports its outcome through its return value: true
\* when the transaction is accepted, false (without raising) when it is
\* rejected for insufficient balance.
C19_ReturnsOutcome ==
    \A tx \in TxInputs :
        Acceptable(tx) => AddTransactionReturn(tx) = (IF Overdraws(tx) THEN "false" ELSE "true")

\* the outcome of the validation pipeline of the specification: the reason
\* of the first failing check among (a) addresses, (b) amount, (c)
\* signature, (d) balance, or no error
PipelineOutcome(tx) ==
    IF tx.fromAddress \in {NULL, <<>>} \/ tx.toAddress \in {NULL, <<>>}
    THEN "Transaction must include from and to address."
    ELSE IF tx.amount <= 0
    THEN "Transaction amount should be greater than 0."
    ELSE IF ~IsValid(tx)
    THEN "Cannot add invalid transaction to the chain."
    ELSE IF Overdraws(tx)
    THEN "InsufficientBalance"
    ELSE NoError

\* C20: addTransaction makes its checks in the order (a) both addresses
\* present, (b) amount > 0, (c) signature verifies, (d) sufficient balance,
\* stops at the first check that fails, and reports a reason of its own for
\* each check.
C20_CheckOrder ==
    \A tx \in TxInputs : AddTransactionError(tx) = PipelineOutcome(tx)

\* the leading zeros of the hash mineBlock has left, counted as HashZeros
ZerosLeft(mined) ==
    IF Tabulated(mined.block.hash) THEN LeadingZeros(mined.block.hash) ELSE mined.zeros

\* C21: whenever mineBlock(d) returns, the hash of the block starts with d
\* '0' characters and is calculateHash() for the final nonce; the nonce has
\* not decreased, and with d = 0 nonce and hash are what they were.
C21_MinedHash ==
    \A d \in 0..MaxDifficulty : \A mined \in MineBlockOutcomes(d) :
        /\ d = 0 \/ ZerosLeft(mined) >= d
        /\ mined.block.hash = BlockCalculateHash(mined.block, Txs(blockObj.transactions))
        /\ mined.block.nonce >= blockObj.nonce
        /\ d = 0 => mined.block = blockObj

\* C22: the hash of a block does not depend on the blockHash field of its
\* transactions: each step of Block.save that assigns a blockHash leaves
\* calculateHash() of the block as it was, and the block a completed mining
\* call appends has a stored hash equal to its recomputed hash.
C22_HashIgnoresBlockHash ==
    [][\A op \in mining :
         /\ (BlockRowSaved(op) \/ TxRowSaved(op)) =>
               BlockCalculateHash(op.block, arrays'[op.block.transactions])
                  = BlockCalculateHash(op.block, arrays[op.block.transactions])
         /\ MerkleNodesSaved(op) =>
               LET b == chain'[Len(chain')]
               IN  b.hash = BlockCalculateHash(b, arrays'[b.transactions])]_vars

\* a block with a transfer and a reward was saved and appended: both
\* transactions carry the block's hash as blockHash
C22_Witness ==
    /\ Idle
    /\ Len(chain) >= 2
    /\ Len(BlockTxs(2)) = 2
    /\ \A k \in 1..2 : BlockTxs(2)[k].blockHash = chain[2].hash
    /\ chain[2].hash = BlockCalculateHash(chain[2], BlockTxs(2))

\* C23: the hash field of a transaction object equals calculateHash() of its
\* current fromAddress, toAddress, amount and timestamp in every reachable
\* state, also after one of these fields was assigned following construction.
C23_HashFieldFresh == txObj.hash = TransactionCalculateHash(txObj)

\* the transaction was signed as it now is
Signed(tx) ==
    /\ tx.fromAddress # NULL
    /\ tx.signature = EcSign(tx.fromAddress, TransactionCalculateHash(tx))

\* an assignment gives amount, toAddress or timestamp another value
ChangesPaymentField ==
    \/ \E a \in TxAmountValues : a # txObj.amount /\ TxSetAmount(a)
    \/ \E v \in TxToValues : v # txObj.toAddress /\ TxSetToAddress(v)
    \/ \E ts \in 1..MaxTime : ts # txObj.timestamp /\ TxSetTimestamp(ts)

\* an assignment gives fromAddress another value out of the set
ChangesFromAddress(values) ==
    \E v \in values : v # txObj.fromAddress /\ TxSetFromAddress(v)

\* sign(key) with the sender's key makes isValid() return true
SignMakesValid ==
    \A publicKey \in Wallets :
        (TxSign(publicKey) /\ publicKey = txObj.fromAddress) => IsValid(txObj')

\* C24 as stated: signing a transaction with the key of its fromAddress makes
\* isValid() return true, and changing amount, fromAddress, toAddress or
\* timestamp after signing makes isValid() return false.
C24_AnyChangeInvalidates ==
    [][/\ SignMakesValid
       /\ (Signed(txObj) /\ (ChangesPaymentField \/ ChangesFromAddress(TxFromValues)))
             => ~IsValid(txObj')]_vars

\* C24 amended: signing a transaction with the key of its fromAddress makes
\* isValid() return true, and changing amount, toAddress or timestamp, or
\* changing fromAddress to another value that is not null, after signing
\* makes isValid() return false; setting fromAddress to null makes it
\* return true when the transaction has a recipient.
C24_SignThenChange ==
    [][/\ SignMakesValid
       /\ (Signed(txObj) /\ (ChangesPaymentField \/ ChangesFromAddress(TxFromValues \ {NULL})))
             => ~IsValid(txObj')
       /\ (Signed(txObj) /\ txObj.toAddress # NULL /\ TxSetFromAddress(NULL))
             => IsValid(txObj')]_vars

\* the amount was changed after signing: the signature is the one of the
\* transaction with its former amount, and isValid() returned false
C24_Witness ==
    /\ txObj.fromAddress \in Wallets
    /\ \E a \in TxAmountValues \ {txObj.amount} :
          txObj.signature = EcSign(txObj.fromAddress, TransactionCalculateHash([txObj EXCEPT !.amount = a]))
    /\ outcome = Returned(<<"false">>)

\* C25: isValid() returns true for a transaction whose fromAddress is null
\* whatever its signature; for any other transaction it returns false when
\* the signature is missing, empty or does not verify; it never throws.
C25_IsValidOutcome ==
    [][TxIsValid =>
         /\ outcome'.kind = "returned"
         /\ txObj.fromAddress = NULL => outcome'.value = <<"true">>
         /\ ( /\ txObj.fromAddress # NULL
              /\ \/ txObj.signature = NULL
                 \/ txObj.signature = <<>>
                 \/ ~EcVerify(txObj.fromAddress, TransactionCalculateHash(txObj), txObj.signature) )
               => outcome'.value = <<"false">>]_vars

\* C26: sign(key) throws and leaves the signature as it was whenever the
\* public key of the key differs from fromAddress, a null fromAddress
\* included; it stores a signature only when the two are equal.
C26_SignOutcome ==
    [][\A publicKey \in Wallets :
         TxSign(publicKey) =>
            IF publicKey # txObj.fromAddress
            THEN outcome'.kind = "thrown" /\ txObj'.signature = txObj.signature
            ELSE /\ outcome'.kind = "returned"
                 /\ txObj'.signature = EcSign(publicKey, TransactionCalculateHash(txObj))]_vars

\* sign threw on a signed transaction whose fromAddress was set to null, and
\* the signature is still there
C26_Witness ==
    /\ outcome.kind = "thrown"
    /\ txObj.fromAddress = NULL
    /\ WellFormedSignature(txObj.signature)

\* C27: hasValidTransactions() returns true if and only if isValid() is true
\* for every transaction of the block; one failing transaction anywhere in
\* the list makes it return false.
C27_AllValid ==
    [][BlockHasValid =>
         LET txs == Txs(blockObj.transactions)
         IN  outcome' = Returned(BoolToken(\A k \in 1..Len(txs) : IsValid(txs[k])))]_vars

\* hasValidTransactions() returned false for a list whose first transaction
\* is valid and whose second is not
C27_Witness ==
    LET txs == Txs(blockObj.transactions)
    IN  /\ Len(txs) = 2
        /\ IsValid(txs[1])
        /\ ~IsValid(txs[2])
        /\ outcome = Returned(<<"false">>)

\* the tree has a leaf with this hash
Present(leafValue) == \E k \in 1..Len(tree.values) : NodeHash(tree.values[k]) = leafValue

\* C28: verifyProof(leaf, getProof(leaf), root) is true for every leaf present
\* in the tree, whatever the size of the tree and the order of sibling
\* hashes, and false for a leaf value that is not in the tree.
C28_ProofRoundTrip ==
    [][\A leafValue \in ProbeLeaves :
         TreeVerifyProof(leafValue) => outcome' = Returned(BoolToken(Present(leafValue)))]_vars

\* C29: getProof(leafValue) fails with the leaf-not-found error whenever no
\* leaf of the tree has the value; it returns no proof for an absent leaf.
C29_LeafNotFound ==
    [][\A leafValue \in ProbeLeaves :
         (TreeGetProof(leafValue) /\ ~Present(leafValue)) => outcome' = Thrown(LeafNotFoundError)]_vars

\* the number of times buildTreeRec halves a level of n nodes
RECURSIVE LevelCount(_)
LevelCount(n) == IF n <= 1 THEN 0 ELSE 1 + LevelCount((n + 1) \div 2)

\* C30: construction succeeds for every list of 1 to 2^10 = 1024 leaves; it
\* fails with the depth-exceeded error exactly when the number of levels
\* above the padded leaves exceeds maxDepth = 10.
C30_DepthBound ==
    LET n == Len(tree.values)
        padded == IF n % 2 = 1 THEN n + 1 ELSE n
    IN  /\ n \in 1..1024 => Constructed
        /\ ~Constructed <=> LevelCount(padded) > 10
        /\ ~Constructed => outcome = Thrown(MaxDepthError)

\* a tree of 1024 leaves was built: its root is the digest of two digests
C30_Witness ==
    /\ Len(tree.values) = 1024
    /\ Constructed
    /\ IsNode(tree.root.left)
    /\ tree.root.value = NodeHash(tree.root.left.value \o tree.root.right.value)

\* the longest path from the node down to a leaf
RECURSIVE Height(_)
Height(node) ==
    IF ~IsNode(node.left) /\ ~IsNode(node.right) THEN 0
    ELSE LET l == IF IsNode(node.left) THEN Height(node.left) ELSE 0
             r == IF IsNode(node.right) THEN Height(node.right) ELSE 0
         IN  1 + (IF l > r THEN l ELSE r)

\* every node has no child or two children of the same height
RECURSIVE Paired(_)
Paired(node) ==
    \/ ~IsNode(node.left) /\ ~IsNode(node.right)
    \/ /\ IsNode(node.left) /\ IsNode(node.right)
       /\ Height(node.left) = Height(node.right)
       /\ Paired(node.left) /\ Paired(node.right)

\* below the node no left child is flagged, and a flagged right child has the
\* value of its left sibling
RECURSIVE FlaggedAreCopies(_)
FlaggedAreCopies(node) ==
    \/ ~IsNode(node.left)
    \/ /\ ~node.left.isCopied
       /\ node.right.isCopied => node.right.value = node.left.value
       /\ FlaggedAreCopies(node.left) /\ FlaggedAreCopies(node.right)

\* below the node every right child that has the value of its left sibling
\* is flagged
RECURSIVE CopiesAreFlagged(_)
CopiesAreFlagged(node) ==
    \/ ~IsNode(node.left)
    \/ /\ node.right.value = node.left.value => node.right.isCopied
       /\ CopiesAreFlagged(node.left) /\ CopiesAreFlagged(node.right)

AllDiffer(values) ==
    \A i \in 1..Len(values) : \A j \in 1..Len(values) : i # j => values[i] # values[j]

\* C31: the last node of a level of odd length is duplicated, so every level
\* is paired and all leaves are at the same depth; 7 values give 8 leaves;
\* isCopied is true on the duplicates only: false on every original leaf and
\* on every computed parent.
C31_PaddedLevels ==
    Constructed =>
        LET leaves == CollectLeaves(tree.root)
            n == Len(tree.values)
        IN  /\ Paired(tree.root)
            /\ n = 7 => Len(leaves) = 8
            /\ \A i \in 1..n : leaves[i].value = NodeHash(tree.values[i]) /\ ~leaves[i].isCopied
            /\ ~tree.root.isCopied
            /\ FlaggedAreCopies(tree.root)
            /\ AllDiffer(tree.values) => CopiesAreFlagged(tree.root)

\* a tree of 7 values that all differ: its eighth leaf is the flagged copy of
\* the seventh
C31_Witness ==
    /\ Constructed
    /\ Len(tree.values) = 7
    /\ AllDiffer(tree.values)
    /\ LET leaves == CollectLeaves(tree.root)
       IN  /\ Len(leaves) = 8
           /\ leaves[8].isCopied
           /\ ~leaves[7].isCopied
           /\ leaves[8].value = leaves[7].value

\* C32: building the tree again from the same list gives the same root hash,
\* and building it from the list with one value replaced by a different one
\* gives a different root hash.
C32_RootOfLeaves ==
    [][/\ TreeBuildAgain => outcome' = Returned(tree.root.value)
       /\ BuildsReplaced => outcome'.value # tree.root.value]_vars

\* the root of a list of three values with one of them replaced was computed
\* and differs from the root of the tree
C32_Witness ==
    /\ Constructed
    /\ Len(tree.values) = 3
    /\ outcome.kind = "returned"
    /\ outcome.value # tree.root.value
    /\ \E k \in 1..3 : \E v \in LeafValues \cup {<<"d">>} :
          v # tree.values[k] /\ outcome.value = GetRootHash([tree.values EXCEPT ![k] = v])

C34_ChainStaysValid ==
    Idle =>
        /\ IsChainValid
        /\ \A i \in 1..Len(chain) :
              /\ chain[i].hash = BlockCalculateHash(chain[i], BlockTxs(i))
              /\ chain[i].merkleRoot = CalculateMerkleRoot(BlockTxs(i))

\* two mining calls have completed, the first with a transfer in the pool,
\* and every transaction of the chain carries the hash of its block
C34_Witness ==
    /\ Idle
    /\ Len(chain) = 3
    /\ Len(BlockTxs(2)) = 2
    /\ \A i \in 2..3 : \A k \in 1..Len(BlockTxs(i)) : BlockTxs(i)[k].blockHash = chain[i].hash
    /\ IsChainValid

\* the transactions addTransaction pushed onto the list of `op` after
\* minePendingTransactions had built and mined its block
LateTxs(op) ==
    LET list == arrays[op.block.transactions]
    IN  {list[k] : k \in {j \in (Len(op.callPool) + 2)..Len(list) : list[j].fromAddress # NULL}}

\* C35: a transaction accepted while a mine is suspended at
\* `await block.save()` is neither lost nor added to the mined block: when
\* the mine completes, the appended block's list is the one its hash and
\* Merkle root were computed over, and the late transaction is still in
\* pendingTransactions.
C35_LateTxKept ==
    [][\A op \in mining :
          MerkleNodesSaved(op) =>
              LET b == chain'[Len(chain')]
                  kept == arrays'[b.transactions]
                  pool == arrays'[pendingTransactions']
              IN  /\ b.hash = BlockCalculateHash(b, kept)
                  /\ b.merkleRoot = CalculateMerkleRoot(kept)
                  /\ \A tx \in LateTxs(op) : \E k \in 1..Len(pool) : pool[k] = tx]_vars

\* a list of transactions without the blockHash stamps of save()
Unstamped(list) == [k \in 1..Len(list) |-> [list[k] EXCEPT !.blockHash = <<>>]]

\* the number of transactions of block i that have fromAddress null
RewardCount(i) == Cardinality({k \in 1..Len(BlockTxs(i)) : BlockTxs(i)[k].fromAddress = NULL})

\* C36: when minePendingTransactions fails because save() rejects,
\* pendingTransactions is left as it was before the call, without the reward
\* the call pushed, so that a retried mine seals one reward only: every block
\* of the chain but the genesis block has exactly one transaction with
\* fromAddress null.
C36_FailedMineLeavesPool ==
    /\ [][\A op \in mining :
             SaveFails(op) => Unstamped(arrays'[pendingTransactions']) = Unstamped(op.callPool)]_vars
    /\ [](\A i \in 2..Len(chain) : RewardCount(i) = 1)

\* the addresses, other than null, that the transactions of the chain name
ChainAddresses ==
    UNION {UNION {{BlockTxs(i)[k].fromAddress, BlockTxs(i)[k].toAddress} :
                      k \in 1..Len(BlockTxs(i))} : i \in 1..Len(chain)} \ {NULL}

RECURSIVE SumOfBalances(_)
SumOfBalances(addresses) ==
    IF addresses = {} THEN 0
    ELSE LET a == CHOOSE x \in addresses : TRUE
         IN  GetBalanceOfAddress(a) + SumOfBalances(addresses \ {a})

\* C37: in every state reachable by addTransaction and
\* minePendingTransactions, getBalanceOfAddress(a) is at least 0 for every
\* address a other than null.
C37_NoNegativeBalance ==
    \A a \in ChainAddresses \cup BalanceAddresses : GetBalanceOfAddress(a) >= 0

\* C38: the balances of all addresses other than null add up to
\* miningReward times the number of blocks mined after the genesis block.
C38_ValueConserved ==
    SumOfBalances(ChainAddresses \cup BalanceAddresses) = miningReward * (Len(chain) - 1)

\* the database holds the rows of the blocks mined and of their
\* transactions, in the order they were saved, and nothing else
StoreHoldsChain ==
    /\ Len(chain) >= 2
    /\ db.blocks = [k \in 1..(Len(chain) - 1) |-> BlockRow(chain[k + 1])]
    /\ \A i \in 2..Len(chain) :
          SelectSeq(db.transactions, LAMBDA row : row.block_hash = chain[i].hash)
              = [k \in 1..Len(BlockTxs(i)) |-> TxRow(BlockTxs(i)[k])]
    /\ \A k \in 1..Len(db.transactions) :
          \E i \in 2..Len(chain) : db.transactions[k].block_hash = chain[i].hash

\* C39: saving and loading is a round trip: with the blocks mined and saved,
\* Blockchain.load() resolves with a chain that passes isChainValid and whose
\* blocks have the index, hash, previousHash and transactions of the blocks
\* of the chain in memory, block 1 linked to the genesis block it was mined on.
\* Stated of the step in which a load settles that has seen all the rows
\* and had every query served.
C39_LoadRoundTrip ==
    [][( /\ Idle /\ StoreHoldsChain
         /\ outcome.kind = "loading" /\ outcome.value.seen = RowCount
         /\ outcome'.kind # "loading"
         /\ ~DatabaseFailed(outcome') ) =>
        /\ outcome'.kind = "loaded"
        /\ IsLoadedChainValid(outcome'.value)
        /\ Len(outcome'.value) = Len(chain)
        /\ \A i \in 2..Len(chain) :
              /\ outcome'.value[i].index = chain[i].index
              /\ outcome'.value[i].hash = chain[i].hash
              /\ outcome'.value[i].previousHash = chain[i].previousHash
              /\ outcome'.value[i].transactions = BlockTxs(i)
        /\ outcome'.value[2].previousHash = chain[1].hash
        /\ outcome'.value[1].hash = chain[1].hash]_vars
====
